---- MODULE Spec2Model ----
(***************************************************************************)
(* Verification model of dfirs1car1o/saas-sec-agents.                      *)
(*                                                                         *)
(*   Spec        the orchestration loop of harness/loop.py (run and        *)
(*               _run_loop), with the tool dispatchers of harness/tools.py *)
(*               and the memory collaborator of harness/memory.py.         *)
(*   SpecAssess  the rule engine of skills/oscal_assess/oscal_assess.py    *)
(*               (run_assessment) applied to bounded catalogs and inputs.  *)
(***************************************************************************)
EXTENDS Integers, Sequences, FiniteSets, TLC

(***************************************************************************)
(* Bounds of the model (not program constants).                            *)
(***************************************************************************)
\* tool_use / text blocks in one model response
MaxBlocks == 2
\* blocks in all the tool_use responses of one run
MaxRunBlocks == 2

(***************************************************************************)
(* Program constants.                                                      *)
(***************************************************************************)
\* harness/loop.py: hard stop to prevent runaway loops
_MAX_TURNS == 20

VARIABLES
    pc,               \* position of the run: see PcValues
    org,              \* --org option of the run
    dry_run,          \* --dry-run flag of the run
    approve_critical, \* --approve-critical flag of the run
    mem_client,       \* TRUE when build_client() returned a client (mem_client is not None)
    turns,            \* state["turns"]: model turns requested so far
    gap_analysis,     \* state["gap_analysis"]: tracked path or NoPath
    backlog,          \* state["backlog"]
    sscf_report,      \* state["sscf_report"]
    summary,          \* state["summary"] or NoSummary when the key is unset
    content,          \* response.content of the current turn: a sequence of blocks
    idx,              \* index of the next block of content to process
    tool_results,     \* tool_results of the current turn
    next_input,       \* content of the last user message appended to messages
    files,            \* the filesystem: path -> file content
    critical_fails,   \* critical_fails computed at the gate
    score,            \* score computed at the gate, in 1/10000
    add_calls,        \* history: the summaries handed to client.add by save_assessment
    memory,           \* the summaries stored by the memory collaborator
    loop_result,      \* the consolidated result record, or NoRecord
    exit_code,        \* exit code of the process, or NoExit while it runs
    dispatched,       \* history: every dispatch call of this turn: block id, name, outcome
    nblocks,          \* history: blocks received in tool_use responses so far
    last_assess,      \* history: output_file of the last successful oscal_assess_assess
    apc,              \* position of the assessor: "ready" or "returned"
    controls,         \* run_assessment: the catalog control list
    raw,              \* run_assessment: the collected input, or None
    assess_dry_run,   \* run_assessment: dry_run
    findings,         \* the list run_assessment returned
    mpc,              \* position of the mapper: "ready", "returned" or "raised"
    gap_findings,     \* oscal_gap_map: the "findings" value of the gap-analysis JSON
    controls_payload, \* oscal_gap_map: the "controls" list of the catalog JSON
    mappings,         \* oscal_gap_map: the "mappings" rows of the legacy crosswalk
    sscf_map_cfg,     \* oscal_gap_map: the SBS-to-SSCF mapping configuration
    backlog_payload,  \* the backlog the mapper wrote
    prev_backlog_payload, \* the backlog of the run before, once the mapper has run twice
    spc,              \* position of the scorer: "ready" or "returned"
    items,            \* _score_findings: the items of one aggregation unit
    scored,           \* the tuple _score_findings returned
    bpc,              \* position of the benchmark: "ready", "returned", "rerun" or "raised"
    scorer_backlog,   \* benchmark: the backlog JSON it loaded
    index_controls,   \* benchmark: the "controls" list of the SSCF control index
    threshold,        \* benchmark: --threshold, in 1/10000
    report,           \* the report run_benchmark returned
    prev_report,      \* the report of the run before, once the benchmark has run twice
    clock             \* the times datetime.now(UTC) returns to the runs still to come

loopvars == <<pc, org, dry_run, approve_critical, mem_client, turns, gap_analysis, backlog,
              sscf_report, summary, content, idx, tool_results, next_input, files,
              critical_fails, score, add_calls, memory, loop_result, exit_code,
              dispatched, nblocks, last_assess>>

assessvars == <<apc, controls, raw, assess_dry_run, findings>>

mapvars == <<mpc, gap_findings, controls_payload, mappings, sscf_map_cfg, backlog_payload,
             prev_backlog_payload>>

scorevars == <<spc, items, scored>>

benchvars == <<bpc, scorer_backlog, index_controls, threshold, report, prev_report>>

\* the tools the loop runs as subprocesses, and the clock they read
toolvars == <<assessvars, mapvars, scorevars, benchvars, clock>>

vars == <<loopvars, toolvars>>

(***************************************************************************)
(* Values.                                                                 *)
(***************************************************************************)
\* Python None / "" for a path: falsy in `if not gap_analysis_path`
NoPath == ""
\* a key that is missing from a JSON object
NoKey == "<missing>"
NoSummary == "<unset>"
NoRecord == [written |-> FALSE]
\* no exit code yet: the process is running
NoExit == 0 - 1
\* Python None, as the value of raw
None == [none |-> TRUE]
\* the empty JSON object {}
EmptyDict == [k \in {} |-> None]

PcValues == {"idle", "start", "awaiting_model_turn", "dispatching_tools", "gating", "persist",
             "returned", "done", "blocked", "aborted"}
Terminal == {"done", "blocked", "aborted"}

Orgs == {"test-org"}

\* harness/tools.py _DISPATCHERS keys
ToolNames == {"sfdc_connect_collect", "oscal_assess_assess", "oscal_gap_map",
              "sscf_benchmark_benchmark"}
\* a name the model may request that no dispatcher knows
UnknownTool == "unknown_tool"

\* The default output of each dispatcher (harness/tools.py) and one override path
\* a tool input may name as "out".
GapDefault == "gap_analysis.json"
BacklogDefault == "backlog.json"
ReportDefault == "sscf_report.json"
RawDefault == "sfdc_raw.json"
AltPath == "alt_gap_analysis.json"
\* The files the loop can come to read.  The collector output and the backlog
\* are read by the tools only and are not kept.
Paths == {GapDefault, AltPath, ReportDefault}

(***************************************************************************)
(* File contents.  A file is absent, unparsable text, or a JSON object of  *)
(* which the loop reads the keys "findings" and "overall_score".           *)
(***************************************************************************)
Absent == [kind |-> "absent"]
Json(hasF, fs, hasS, sc) ==
    [kind |-> "json", has_findings |-> hasF, findings |-> fs,
     has_score |-> hasS, overall_score |-> sc]
\* a gap-analysis payload as oscal_assess writes it
GapFile(fs) == Json(TRUE, fs, FALSE, 0)
\* a score report as sscf_benchmark writes it (overall_score in 1/10000)
ReportFile(sc) == Json(FALSE, <<>>, TRUE, sc)
\* a backlog or collector payload: a JSON object with neither key
OtherJson == Json(FALSE, <<>>, FALSE, 0)

F(cid, st, sev) == [control_id |-> cid, status |-> st, severity |-> sev]

\* Gap-analysis artifacts the assessor can produce in the runs explored.
GapArtifacts ==
    { <<F("SBS-ACS-001", "fail", "high"), F("SBS-AUTH-001", "partial", "critical")>>,
      <<F("SBS-ACS-001", "fail", "high"), F("SBS-AUTH-001", "fail", "critical")>>,
      <<F("SBS-AUTH-001", "fail", "critical"), F("SBS-OAUTH-001", "fail", "critical")>> }
\* overall scores the scorer can report, in 1/10000
Scores == {3400, 10000}

(***************************************************************************)
(* harness/loop.py: the gate helpers.                                      *)
(***************************************************************************)
RECURSIVE CriticalIds(_)
\* the list comprehension of _extract_critical_fails over the findings
CriticalIds(fs) ==
    IF fs = <<>> THEN <<>>
    ELSE IF Head(fs).status = "fail" /\ Head(fs).severity = "critical"
         THEN <<Head(fs).control_id>> \o CriticalIds(Tail(fs))
         ELSE CriticalIds(Tail(fs))

\* f["control_id"] raises KeyError for a critical/fail entry without the key
RaisesKeyError(fs) ==
    \E i \in 1..Len(fs) :
        /\ fs[i].status = "fail"
        /\ fs[i].severity = "critical"
        /\ fs[i].control_id = NoKey

\* variant: the KeyError of an entry without control_id is not caught
_extract_critical_fails_noCatch(path, fs) ==
    IF path = NoPath THEN <<>>
    ELSE IF fs[path].kind = "absent" THEN <<>>
    ELSE IF fs[path].kind # "json" THEN <<>>
    ELSE IF ~fs[path].has_findings THEN <<>>
    ELSE CriticalIds(fs[path].findings)

\* _extract_critical_fails(gap_analysis_path) against the filesystem fs
_extract_critical_fails(path, fs) ==
    IF path = NoPath THEN <<>>
    ELSE IF fs[path].kind = "absent" THEN <<>>
    ELSE IF fs[path].kind # "json" THEN <<>>
    ELSE IF ~fs[path].has_findings THEN <<>>
    ELSE IF RaisesKeyError(fs[path].findings) THEN <<>>
    ELSE CriticalIds(fs[path].findings)

\* _extract_score(sscf_report_path), in 1/10000
_extract_score(path, fs) ==
    IF path = NoPath THEN 0
    ELSE IF fs[path].kind = "absent" THEN 0
    ELSE IF fs[path].kind # "json" THEN 0
    ELSE IF ~fs[path].has_score THEN 0
    ELSE fs[path].overall_score

\* variant: the gate forgets the dry-run flag
GateBlocks_ignoresDryRun(cf, dry, approve) == cf # <<>> /\ ~approve
\* variant: the approval flag is tested the wrong way round
GateBlocks_invertedApproval(cf, dry, approve) == cf # <<>> /\ ~dry /\ approve

\* the condition of `if critical_fails and not dry_run and not approve_critical`
GateBlocks(cf, dry, approve) == cf # <<>> /\ ~dry /\ ~approve

(***************************************************************************)
(* harness/loop.py: _handle_tool_error.                                    *)
(***************************************************************************)
_CRITICAL_TOOLS == {"sfdc_connect_collect", "oscal_assess_assess"}

\* variant: only the collector is on the critical path
HandlerRaises_collectorOnly(tool_name) == tool_name = "sfdc_connect_collect"
\* variant: the handler re-raises whatever the tool
HandlerRaises_always(tool_name) == TRUE

\* TRUE when _handle_tool_error re-raises instead of returning a payload
HandlerRaises(tool_name) == tool_name \in _CRITICAL_TOOLS

\* json.dumps({"status": "error", "tool": tool_name, "message": str(error)})
ErrorPayload(tool_name) ==
    [status |-> "error", tool |-> tool_name, output_file |-> NoPath, has_output |-> FALSE]

\* json.dumps({"status": "ok", "output_file": out_path}) of a dispatcher
OkPayload(tool_name, out_path) ==
    [status |-> "ok", tool |-> tool_name, output_file |-> out_path, has_output |-> TRUE]

(***************************************************************************)
(* harness/tools.py: the dispatchers.  A block input carries the output    *)
(* override ("out" / "out_json", NoPath when omitted) and dry_run.         *)
(***************************************************************************)
DefaultOut(tool_name) ==
    CASE tool_name = "sfdc_connect_collect" -> RawDefault
      [] tool_name = "oscal_assess_assess" -> GapDefault
      [] tool_name = "oscal_gap_map" -> BacklogDefault
      [] tool_name = "sscf_benchmark_benchmark" -> ReportDefault
      [] OTHER -> NoPath

\* out_path = inp.get("out") or str(out_dir / "<default>")
OutPath(block) == IF block.out # NoPath THEN block.out ELSE DefaultOut(block.name)

\* The contents a successful run of the tool can leave at its output path.
Produces(block) ==
    CASE block.name = "oscal_assess_assess" -> {GapFile(g) : g \in GapArtifacts}
      [] block.name = "sscf_benchmark_benchmark" -> {ReportFile(sc) : sc \in Scores}
      [] OTHER -> {OtherJson}

\* the filesystem after a write of c at path p (paths the loop never reads are
\* not kept)
Write(fs, p, c) == IF p \in DOMAIN fs THEN [fs EXCEPT ![p] = c] ELSE fs

(***************************************************************************)
(* Model responses: response.content is a sequence of text and tool_use    *)
(* blocks; the tool_use blocks of one response carry distinct ids.         *)
(***************************************************************************)
TextBlock == [type |-> "text", id |-> <<0, 0>>, name |-> "", out |-> NoPath]

\* A tool_use block as the model requests it, before the API gives it its id.
\* The output override is explored for the assessor, whose gap analysis the
\* gate reads, and for the mapper told to write its backlog over the default
\* gap analysis.
RequestableBlocks ==
    { [type |-> "tool_use", id |-> <<0, 0>>, name |-> n, out |-> NoPath] :
        n \in ToolNames \cup {UnknownTool} }
    \cup { [type |-> "tool_use", id |-> <<0, 0>>, name |-> "oscal_assess_assess",
            out |-> AltPath],
           [type |-> "tool_use", id |-> <<0, 0>>, name |-> "oscal_gap_map",
            out |-> GapDefault] }

IsToolUse(block) == block.type = "tool_use"

RECURSIVE SeqsUpTo(_, _)
SeqsUpTo(S, n) ==
    IF n = 0 THEN {<<>>}
    ELSE LET shorter == SeqsUpTo(S, n - 1)
         IN shorter \cup {Append(q, x) : q \in {r \in shorter : Len(r) = n - 1}, x \in S}

ToolUseIndices(blocks) == {i \in 1..Len(blocks) : IsToolUse(blocks[i])}

\* the ids of the tool_use blocks are unique over the run: block i of turn t
WithIds(blocks, t) ==
    [i \in 1..Len(blocks) |->
        IF IsToolUse(blocks[i]) THEN [blocks[i] EXCEPT !.id = <<t, i>>] ELSE blocks[i]]

\* the contents of a tool_use response of at most n blocks
Responses(n) == SeqsUpTo(RequestableBlocks \cup {TextBlock}, n)

Min(a, b) == IF a <= b THEN a ELSE b

StopReasons == {"end_turn", "max_tokens", "tool_use", "stop_sequence"}

\* state["summary"] set when the loop breaks on the stop reason
SummaryFor(stop_reason) ==
    CASE stop_reason = "end_turn" -> "final_text"
      [] stop_reason = "max_tokens" -> "[truncated]"
      [] OTHER -> "[stop: " \o stop_reason \o "]"

\* f"[max_turns={_MAX_TURNS} exceeded]"
MaxTurnsMarker == "[max_turns=" \o ToString(_MAX_TURNS) \o " exceeded]"

\* variant: the ceiling is off by one
LoopExhausted_offByOne(t) == t > _MAX_TURNS

\* the for loop over range(_MAX_TURNS) is exhausted after this many turns
LoopExhausted(t) == t >= _MAX_TURNS

(***************************************************************************)
(* Output tracking (loop.py 209-222).                                      *)
(***************************************************************************)
\* variant: the first gap analysis of the run stays tracked
TrackGap_keepsFirst(name, payload, cur) ==
    IF cur # NoPath THEN cur
    ELSE IF payload.has_output /\ payload.output_file # NoPath
            /\ name = "oscal_assess_assess"
         THEN payload.output_file ELSE cur

TrackGap(name, payload, cur) ==
    IF payload.has_output /\ payload.output_file # NoPath /\ name = "oscal_assess_assess"
    THEN payload.output_file ELSE cur
\* variant: the backlog path follows the output of whatever tool ran last
TrackBacklog_anyTool(name, payload, cur) ==
    IF payload.has_output /\ payload.output_file # NoPath
    THEN payload.output_file ELSE cur

TrackBacklog(name, payload, cur) ==
    IF payload.has_output /\ payload.output_file # NoPath /\ name = "oscal_gap_map"
    THEN payload.output_file ELSE cur
TrackReport(name, payload, cur) ==
    IF payload.has_output /\ payload.output_file # NoPath /\ name = "sscf_benchmark_benchmark"
    THEN payload.output_file ELSE cur

\* history record of one call dispatch(block.name, block.input)
DispatchCall(block, ok) == [id |-> block.id, name |-> block.name, ok |-> ok]

\* variant: every result of a turn carries the id of the turn's first block
ToolResult_firstId(block, payload) ==
    [type |-> "tool_result", tool_use_id |-> <<block.id[1], 1>>, content |-> payload]

\* the tool_result appended for a block
ToolResult(block, payload) ==
    [type |-> "tool_result", tool_use_id |-> block.id, content |-> payload]

(***************************************************************************)
(* harness/memory.py: save_assessment.                                     *)
(***************************************************************************)
FirstN(q, n) == IF Len(q) <= n THEN q ELSE SubSeq(q, 1, n)

\* f"{score:.1%}": the score in tenths of a percent (score is in 1/10000)
PercentTenths(sc) == (sc + 5) \div 10

\* variant: the summary is stored under a fixed user instead of the org
MemorySummary_fixedUser(org_alias, sc, cf) ==
    [user_id |-> "default",
     overall_score |-> PercentTenths(sc),
     critical_fails |-> Len(cf),
     ids |-> FirstN(cf, 5),
     meta_score |-> sc]

\* the summary handed to client.add(summary, user_id=org_alias, metadata=...)
MemorySummary(org_alias, sc, cf) ==
    [user_id |-> org_alias,
     overall_score |-> PercentTenths(sc),
     critical_fails |-> Len(cf),
     ids |-> FirstN(cf, 5),
     meta_score |-> sc]

\* the record run() writes to loop_result.json
ResultRecord(o, dry, t, sc, cf, gap, bl, rep, sm) ==
    [written |-> TRUE, org |-> o, dry_run |-> dry, turns |-> t, overall_score |-> sc,
     critical_fails |-> cf, gap_analysis |-> gap, backlog |-> bl, sscf_report |-> rep,
     summary |-> IF sm = NoSummary THEN "" ELSE sm]

(***************************************************************************)
(* The orchestration loop.                                                 *)
(***************************************************************************)
LoopInit ==
    /\ pc = "start"
    /\ org \in Orgs
    /\ dry_run \in BOOLEAN
    /\ approve_critical \in BOOLEAN
    /\ mem_client = FALSE
    /\ turns = 0
    /\ gap_analysis = NoPath
    /\ backlog = NoPath
    /\ sscf_report = NoPath
    /\ summary = NoSummary
    /\ content = <<>>
    /\ idx = 1
    /\ tool_results = <<>>
    /\ next_input = <<>>
    /\ files = [p \in Paths |-> Absent]
    /\ critical_fails = <<>>
    /\ score = 0
    /\ add_calls = <<>>
    /\ memory = <<>>
    /\ loop_result = NoRecord
    /\ exit_code = NoExit
    /\ dispatched = <<>>
    /\ nblocks = 0
    /\ last_assess = NoPath

\* an exception leaves _run_loop and run: the process ends with a traceback
Abort ==
    /\ pc' = "aborted"
    /\ exit_code' = 1

\* _run_loop 135-165: the client, the memory client (None when build_client
\* raises), the first user message and the tracking state
Setup ==
    /\ pc = "start"
    /\ mem_client' \in BOOLEAN
    /\ pc' = "awaiting_model_turn"
    /\ UNCHANGED <<org, dry_run, approve_critical, turns, gap_analysis, backlog,
                   sscf_report, summary, content, idx, tool_results, next_input, files,
                   critical_fails, score, add_calls, memory, loop_result, exit_code, dispatched,
                   nblocks, last_assess>>
    /\ UNCHANGED toolvars

\* client.messages.create raises (the API is unreachable or rejects the call)
ModelCallFails ==
    /\ pc = "awaiting_model_turn"
    /\ turns' = turns + 1
    /\ Abort
    /\ UNCHANGED <<org, dry_run, approve_critical, mem_client, gap_analysis, backlog,
                   sscf_report, summary, content, idx, tool_results, next_input, files,
                   critical_fails, score, add_calls, memory, loop_result, dispatched, nblocks,
                   last_assess>>
    /\ UNCHANGED toolvars

\* one iteration of the for loop up to the stop-reason branches (168-196)
ModelTurn ==
    /\ pc = "awaiting_model_turn"
    /\ turns' = turns + 1
    /\ \E stop_reason \in StopReasons :
        IF stop_reason = "tool_use"
        THEN /\ \E blocks \in Responses(Min(MaxBlocks, MaxRunBlocks - nblocks)) :
                  /\ content' = WithIds(blocks, turns')
                  /\ nblocks' = nblocks + Len(blocks)
             /\ pc' = "dispatching_tools"
             /\ UNCHANGED summary
        ELSE /\ content' = <<TextBlock>>
             /\ pc' = "gating"
             /\ summary' = SummaryFor(stop_reason)
             /\ UNCHANGED nblocks
    /\ idx' = 1
    /\ tool_results' = <<>>
    /\ dispatched' = <<>>
    /\ next_input' = <<>>
    /\ UNCHANGED <<org, dry_run, approve_critical, mem_client, gap_analysis, backlog,
                   sscf_report, files, critical_fails, score, add_calls, memory, loop_result,
                   exit_code, last_assess>>
    /\ UNCHANGED toolvars

\* a block that is not a tool_use block is skipped (199-200)
SkipBlock ==
    /\ pc = "dispatching_tools"
    /\ idx <= Len(content)
    /\ ~IsToolUse(content[idx])
    /\ idx' = idx + 1
    /\ UNCHANGED <<pc, org, dry_run, approve_critical, mem_client, turns, gap_analysis,
                   backlog, sscf_report, summary, content, tool_results, next_input, files,
                   critical_fails, score, add_calls, memory, loop_result, exit_code, dispatched,
                   nblocks, last_assess>>
    /\ UNCHANGED toolvars

\* the rest of the loop body once the block has a result string (209-230)
RecordResult(block, payload) ==
    /\ gap_analysis' = TrackGap(block.name, payload, gap_analysis)
    /\ backlog' = TrackBacklog(block.name, payload, backlog)
    /\ sscf_report' = TrackReport(block.name, payload, sscf_report)
    /\ tool_results' = Append(tool_results, ToolResult(block, payload))
    /\ idx' = idx + 1

\* dispatch(block.name, block.input) returns: the subprocess exited 0
DispatchOk ==
    /\ pc = "dispatching_tools"
    /\ idx <= Len(content)
    /\ IsToolUse(content[idx])
    /\ content[idx].name \in ToolNames
    /\ LET block == content[idx]
           out_path == OutPath(block)
       IN /\ \E c \in Produces(block) :
                files' = Write(files, out_path, c)
          /\ RecordResult(block, OkPayload(block.name, out_path))
          /\ dispatched' = Append(dispatched, DispatchCall(block, TRUE))
          /\ last_assess' = IF block.name = "oscal_assess_assess" THEN out_path
                            ELSE last_assess
    /\ UNCHANGED <<pc, org, dry_run, approve_critical, mem_client, turns, summary, content,
                   next_input, critical_fails, score, add_calls, memory, loop_result, exit_code,
                   nblocks>>
    /\ UNCHANGED toolvars

\* dispatch raises (non-zero exit of the subprocess, or an unknown tool name) and
\* _handle_tool_error decides (204-207)
DispatchFails ==
    /\ pc = "dispatching_tools"
    /\ idx <= Len(content)
    /\ IsToolUse(content[idx])
    /\ LET block == content[idx]
       IN /\ dispatched' = Append(dispatched, DispatchCall(block, FALSE))
          /\ IF HandlerRaises(block.name)
             THEN /\ Abort
                  /\ UNCHANGED <<gap_analysis, backlog, sscf_report, tool_results, idx>>
             ELSE /\ RecordResult(block, ErrorPayload(block.name))
                  /\ UNCHANGED <<pc, exit_code>>
    /\ UNCHANGED <<org, dry_run, approve_critical, mem_client, turns, summary, content,
                   next_input, files, critical_fails, score, add_calls, memory, loop_result,
                   last_assess, nblocks>>
    /\ UNCHANGED toolvars

\* every block is processed: the turn is appended to messages and the for loop
\* goes on, or is exhausted and its else branch runs (232-238)
EndOfTurn ==
    /\ pc = "dispatching_tools"
    /\ idx > Len(content)
    /\ next_input' = tool_results
    /\ IF LoopExhausted(turns)
       THEN /\ summary' = MaxTurnsMarker
            /\ pc' = "gating"
       ELSE /\ pc' = "awaiting_model_turn"
            /\ UNCHANGED summary
    /\ UNCHANGED <<org, dry_run, approve_critical, mem_client, turns, gap_analysis, backlog,
                   sscf_report, content, idx, tool_results, files, critical_fails, score,
                   add_calls, memory, loop_result, exit_code, dispatched, nblocks, last_assess>>
    /\ UNCHANGED toolvars

\* the critical/fail gate (240-251)
Gate ==
    /\ pc = "gating"
    /\ critical_fails' = _extract_critical_fails(gap_analysis, files)
    /\ score' = _extract_score(sscf_report, files)
    /\ IF GateBlocks(critical_fails', dry_run, approve_critical)
       THEN /\ pc' = "blocked"
            /\ exit_code' = 2
       ELSE /\ pc' = "persist"
            /\ UNCHANGED exit_code
    /\ UNCHANGED <<org, dry_run, approve_critical, mem_client, turns, gap_analysis, backlog,
                   sscf_report, summary, content, idx, tool_results, next_input, files,
                   add_calls, memory, loop_result, dispatched, nblocks, last_assess>>
    /\ UNCHANGED toolvars

\* persist to memory and return the state (253-260); client.add may raise, which
\* save_assessment turns into a warning
Persist ==
    /\ pc = "persist"
    /\ IF mem_client
       THEN /\ add_calls' = Append(add_calls, MemorySummary(org, score, critical_fails))
            /\ \/ memory' = Append(memory, MemorySummary(org, score, critical_fails))
               \/ UNCHANGED memory
       ELSE UNCHANGED <<add_calls, memory>>
    /\ pc' = "returned"
    /\ UNCHANGED <<org, dry_run, approve_critical, mem_client, turns, gap_analysis, backlog,
                   sscf_report, summary, content, idx, tool_results, next_input, files,
                   critical_fails, score, loop_result, exit_code, dispatched, nblocks,
                   last_assess>>
    /\ UNCHANGED toolvars

\* run() prints the outcome and writes loop_result.json (341-377)
WriteResult ==
    /\ pc = "returned"
    /\ loop_result' = ResultRecord(org, dry_run, turns, score, critical_fails,
                                   gap_analysis, backlog, sscf_report, summary)
    /\ pc' = "done"
    /\ exit_code' = 0
    /\ UNCHANGED <<org, dry_run, approve_critical, mem_client, turns, gap_analysis, backlog,
                   sscf_report, summary, content, idx, tool_results, next_input, files,
                   critical_fails, score, add_calls, memory, dispatched, nblocks, last_assess>>
    /\ UNCHANGED toolvars

LoopNext ==
    \/ Setup
    \/ ModelCallFails
    \/ ModelTurn
    \/ SkipBlock
    \/ DispatchOk
    \/ DispatchFails
    \/ EndOfTurn
    \/ Gate
    \/ Persist
    \/ WriteResult

\* the assessor is not part of the loop process: the loop runs it as a tool
AssessIdle ==
    /\ apc = "idle"
    /\ controls = <<>>
    /\ raw = None
    /\ assess_dry_run = FALSE
    /\ findings = <<>>

\* the mapper is not started
MapIdle ==
    /\ mpc = "idle"
    /\ gap_findings = [is_list |-> TRUE, entries |-> <<>>]
    /\ controls_payload = <<>>
    /\ mappings = <<>>
    /\ sscf_map_cfg = EmptyDict
    /\ backlog_payload = EmptyDict
    /\ prev_backlog_payload = EmptyDict

\* the scorer is not started
ScoreIdle ==
    /\ spc = "idle"
    /\ items = <<>>
    /\ scored = <<>>

\* the benchmark is not started
BenchIdle ==
    /\ bpc = "idle"
    /\ scorer_backlog = EmptyDict
    /\ index_controls = <<>>
    /\ threshold = 0
    /\ report = EmptyDict
    /\ prev_report = EmptyDict

\* the loop process is not started
LoopIdle ==
    /\ pc = "idle"
    /\ org = "test-org"
    /\ dry_run = FALSE
    /\ approve_critical = FALSE
    /\ mem_client = FALSE
    /\ turns = 0
    /\ gap_analysis = NoPath
    /\ backlog = NoPath
    /\ sscf_report = NoPath
    /\ summary = NoSummary
    /\ content = <<>>
    /\ idx = 1
    /\ tool_results = <<>>
    /\ next_input = <<>>
    /\ files = [p \in Paths |-> Absent]
    /\ critical_fails = <<>>
    /\ score = 0
    /\ add_calls = <<>>
    /\ memory = <<>>
    /\ loop_result = NoRecord
    /\ exit_code = NoExit
    /\ dispatched = <<>>
    /\ nblocks = 0
    /\ last_assess = NoPath

Init == LoopInit /\ AssessIdle /\ MapIdle /\ ScoreIdle /\ BenchIdle /\ clock = <<>>
Next == LoopNext
Spec == Init /\ [][Next]_vars

(***************************************************************************)
(* skills/oscal_assess/oscal_assess.py: the rule engine.                   *)
(*                                                                         *)
(* A JSON object is a function from its keys; a SOQL result is an object   *)
(* with the keys totalSize and records, or the {error, note} object the    *)
(* collector stores in its place.  Every value a rule tests with           *)
(* isinstance(_, dict) is an object in what sfdc-connect collects.         *)
(***************************************************************************)
VALID_STATUSES == {"pass", "fail", "partial", "not_applicable"}
VALID_SEVERITIES == {"critical", "high", "moderate", "low"}

\* d.get(k, default)
Get(d, k, default) == IF k \in DOMAIN d THEN d[k] ELSE default

\* `not x` for x an object or None
Falsy(x) == IF x = None THEN TRUE ELSE DOMAIN x = {}

\* the Finding dataclass, with the fields the pipeline reads
FindingWith(control_id, status, severity, observed_value, remediation) ==
    [control_id |-> control_id, status |-> status, severity |-> severity,
     observed_value |-> observed_value, remediation |-> remediation]

\* the remediation text of a finding a rule made from what it measured
Advice == "advice"

\* a finding as the rule functions construct it from a measurement
Finding(control_id, status, severity, observed_value) ==
    FindingWith(control_id, status, severity, observed_value, Advice)

\* the observed_value of a finding made by a rule from what it measured
Measured == "measured"
ScopeNotCollected == "Scope not collected by sfdc-connect"
NoRuleDefined == "No assessment rule defined"

\* variant: the status is spelled as in the reports
_na_spelledNA(control_id, severity, reason) ==
    FindingWith(control_id, "n/a", severity, reason, "")

_na(control_id, severity, reason) ==
    FindingWith(control_id, "not_applicable", severity, reason, "")

\* variant: only an input keyed by scope names is accepted
_scope_namedOnly(r, scope_name) ==
    IF scope_name \in DOMAIN r THEN r[scope_name] ELSE None

\* _scope(raw, scope_name): the named scope, or raw itself when raw is not
\* empty and has no such key, or None
_scope(r, scope_name) ==
    IF scope_name \in DOMAIN r THEN r[scope_name]
    ELSE IF DOMAIN r # {} THEN r
    ELSE None

_total(obj) == Get(obj, "totalSize", 0)
_records(obj) == Get(obj, "records", <<>>)

\* p.get(k) taken as a condition: a missing key is None, which is false
Flag(p, k) == Get(p, k, FALSE)

\* sum(1 for ... if ...) / len([... if ...]): the number of matching records,
\* given as the set of their positions
Count(matching) == Cardinality(matching)

\* "API" in t.upper() or "REST" in t.upper(), on the event types of the model
EventTypes == {"ApiEvent", "RestApi", "ApiTotalUsage", "Login", "Report", "Logout"}
IsApiType(t) == t \in {"ApiEvent", "RestApi", "ApiTotalUsage"}

_rule_auth_001(r) ==
    LET auth == _scope(r, "auth")
    IN IF Falsy(auth) THEN _na("SBS-AUTH-001", "critical", ScopeNotCollected)
       ELSE LET providers == _records(Get(auth, "sso_providers", EmptyDict))
                IsEnabled(p) == Flag(p, "IsEnabled")
            IN IF Len(providers) = 0
               THEN Finding("SBS-AUTH-001", "fail", "critical", Measured)
               ELSE IF Count({i \in DOMAIN providers : IsEnabled(providers[i])}) = 0
               THEN Finding("SBS-AUTH-001", "partial", "critical", Measured)
               ELSE Finding("SBS-AUTH-001", "pass", "critical", Measured)

_rule_auth_002(r) ==
    LET auth == _scope(r, "auth")
    IN IF Falsy(auth) THEN _na("SBS-AUTH-002", "moderate", ScopeNotCollected)
       ELSE LET providers == _records(Get(auth, "sso_providers", EmptyDict))
                ip_ranges == _total(Get(auth, "login_ip_ranges", EmptyDict))
            IN IF Len(providers) = 0
               THEN Finding("SBS-AUTH-002", "partial", "moderate", Measured)
               ELSE IF ip_ranges = 0
               THEN Finding("SBS-AUTH-002", "partial", "moderate", Measured)
               ELSE Finding("SBS-AUTH-002", "pass", "moderate", Measured)

_rule_auth_003(r) ==
    LET auth == _scope(r, "auth")
    IN IF Falsy(auth) THEN _na("SBS-AUTH-003", "moderate", ScopeNotCollected)
       ELSE LET ip_ranges == _total(Get(auth, "login_ip_ranges", EmptyDict))
            IN IF ip_ranges = 0
               THEN Finding("SBS-AUTH-003", "fail", "moderate", Measured)
               ELSE IF ip_ranges < 3
               THEN Finding("SBS-AUTH-003", "partial", "moderate", Measured)
               ELSE Finding("SBS-AUTH-003", "pass", "moderate", Measured)

_rule_auth_004(r) ==
    LET auth == _scope(r, "auth")
    IN IF Falsy(auth) THEN _na("SBS-AUTH-004", "moderate", ScopeNotCollected)
       ELSE LET mfa == Get(auth, "mfa_org_settings", EmptyDict)
                records == _records(mfa)
            IN IF "error" \in DOMAIN mfa
               THEN Finding("SBS-AUTH-004", "partial", "moderate", Measured)
               ELSE IF Len(records) > 0
                       /\ Flag(records[1], "MultiFactorAuthenticationForUserUI")
               THEN Finding("SBS-AUTH-004", "pass", "moderate", Measured)
               ELSE Finding("SBS-AUTH-004", "partial", "moderate", Measured)

_rule_acs_001(r) ==
    LET access == _scope(r, "access")
    IN IF Falsy(access) THEN _na("SBS-ACS-001", "high", ScopeNotCollected)
       ELSE LET admin_profiles == _total(Get(access, "admin_profiles", EmptyDict))
            IN IF admin_profiles > 5
               THEN Finding("SBS-ACS-001", "fail", "high", Measured)
               ELSE IF admin_profiles > 2
               THEN Finding("SBS-ACS-001", "partial", "high", Measured)
               ELSE Finding("SBS-ACS-001", "pass", "high", Measured)

_rule_acs_002(r) ==
    LET access == _scope(r, "access")
    IN IF Falsy(access) THEN _na("SBS-ACS-002", "high", ScopeNotCollected)
       ELSE LET perm_sets == _total(Get(access, "elevated_permission_sets", EmptyDict))
            IN IF perm_sets > 10
               THEN Finding("SBS-ACS-002", "fail", "high", Measured)
               ELSE IF perm_sets > 4
               THEN Finding("SBS-ACS-002", "partial", "high", Measured)
               ELSE Finding("SBS-ACS-002", "pass", "high", Measured)

_rule_acs_003(r) ==
    LET access == _scope(r, "access")
    IN IF Falsy(access) THEN _na("SBS-ACS-003", "critical", ScopeNotCollected)
       ELSE LET apps == _records(Get(access, "connected_apps", EmptyDict))
                Unrestricted(a) == ~Flag(a, "OptionsAllowAdminApprovedUsersOnly")
                unrestricted == Count({i \in DOMAIN apps : Unrestricted(apps[i])})
            IN IF Len(apps) = 0
               THEN Finding("SBS-ACS-003", "pass", "critical", Measured)
               ELSE IF unrestricted = Len(apps)
               THEN Finding("SBS-ACS-003", "fail", "critical", Measured)
               ELSE IF unrestricted > 0
               THEN Finding("SBS-ACS-003", "partial", "critical", Measured)
               ELSE Finding("SBS-ACS-003", "pass", "critical", Measured)

_rule_acs_004(r) ==
    LET access == _scope(r, "access")
    IN IF Falsy(access) THEN _na("SBS-ACS-004", "high", ScopeNotCollected)
       ELSE LET profiles == _records(Get(access, "admin_profiles", EmptyDict))
                SuperAdmin(p) == Flag(p, "PermissionsModifyAllData")
                                    /\ Flag(p, "PermissionsManageUsers")
                count == Count({i \in DOMAIN profiles : SuperAdmin(profiles[i])})
            IN IF count > 2
               THEN Finding("SBS-ACS-004", "fail", "high", Measured)
               ELSE IF count > 0
               THEN Finding("SBS-ACS-004", "partial", "high", Measured)
               ELSE Finding("SBS-ACS-004", "pass", "high", Measured)

_rule_acs_structural(control_id, severity, r) ==
    LET access == _scope(r, "access")
    IN IF Falsy(access) THEN _na(control_id, severity, ScopeNotCollected)
       ELSE Finding(control_id, "partial", severity, Measured)

_rule_int_002(r) ==
    LET integrations == _scope(r, "integrations")
    IN IF Falsy(integrations) THEN _na("SBS-INT-002", "moderate", ScopeNotCollected)
       ELSE LET sites == _records(Get(integrations, "remote_site_settings", EmptyDict))
                Insecure(x) == Flag(x, "DisableProtocolSecurity") /\ Flag(x, "IsActive")
                InactiveInsecure(x) ==
                    Flag(x, "DisableProtocolSecurity") /\ ~Flag(x, "IsActive")
            IN IF Count({i \in DOMAIN sites : Insecure(sites[i])}) > 0
               THEN Finding("SBS-INT-002", "fail", "moderate", Measured)
               ELSE IF Count({i \in DOMAIN sites : InactiveInsecure(sites[i])}) > 0
               THEN Finding("SBS-INT-002", "partial", "moderate", Measured)
               ELSE Finding("SBS-INT-002", "pass", "moderate", Measured)

_rule_int_003(r) ==
    LET integrations == _scope(r, "integrations")
    IN IF Falsy(integrations) THEN _na("SBS-INT-003", "moderate", ScopeNotCollected)
       ELSE LET creds == _records(Get(integrations, "named_credentials", EmptyDict))
            IN IF Len(creds) = 0
               THEN Finding("SBS-INT-003", "partial", "moderate", Measured)
               ELSE Finding("SBS-INT-003", "pass", "moderate", Measured)

_rule_int_004(r) ==
    LET em == _scope(r, "event-monitoring")
    IN IF Falsy(em) THEN _na("SBS-INT-004", "high", ScopeNotCollected)
       ELSE LET log_types == _records(Get(em, "event_log_types", EmptyDict))
                unique_types == {Get(log_types[i], "EventType", "") :
                                    i \in 1..Len(log_types)} \ {""}
                api_types == {t \in unique_types : IsApiType(t)}
            IN IF unique_types = {}
               THEN Finding("SBS-INT-004", "fail", "high", Measured)
               ELSE IF api_types = {}
               THEN Finding("SBS-INT-004", "partial", "high", Measured)
               ELSE Finding("SBS-INT-004", "pass", "high", Measured)

_rule_oauth_001(r) ==
    LET oauth == _scope(r, "oauth")
    IN IF Falsy(oauth) THEN _na("SBS-OAUTH-001", "critical", ScopeNotCollected)
       ELSE LET policies == _records(Get(oauth, "connected_app_oauth_policies", EmptyDict))
                OpenAccess(p) == Get(p, "PermittedUsersPolicyEnum", "") \in {"AllUsers", ""}
                open_access == Count({i \in DOMAIN policies : OpenAccess(policies[i])})
            IN IF Len(policies) = 0
               THEN Finding("SBS-OAUTH-001", "pass", "critical", Measured)
               ELSE IF open_access = Len(policies)
               THEN Finding("SBS-OAUTH-001", "fail", "critical", Measured)
               ELSE IF open_access > 0
               THEN Finding("SBS-OAUTH-001", "partial", "critical", Measured)
               ELSE Finding("SBS-OAUTH-001", "pass", "critical", Measured)

_rule_oauth_002(r) ==
    LET oauth == _scope(r, "oauth")
    IN IF Falsy(oauth) THEN _na("SBS-OAUTH-002", "critical", ScopeNotCollected)
       ELSE LET policies == _records(Get(oauth, "connected_app_oauth_policies", EmptyDict))
                Unrestricted(p) == ~Flag(p, "OptionsAllowAdminApprovedUsersOnly")
                unrestricted == Count({i \in DOMAIN policies : Unrestricted(policies[i])})
            IN IF Len(policies) = 0
               THEN Finding("SBS-OAUTH-002", "pass", "critical", Measured)
               ELSE IF unrestricted = Len(policies)
               THEN Finding("SBS-OAUTH-002", "fail", "critical", Measured)
               ELSE IF unrestricted > 0
               THEN Finding("SBS-OAUTH-002", "partial", "critical", Measured)
               ELSE Finding("SBS-OAUTH-002", "pass", "critical", Measured)

_rule_oauth_structural(control_id, severity, r) ==
    LET oauth == _scope(r, "oauth")
    IN IF Falsy(oauth) THEN _na(control_id, severity, ScopeNotCollected)
       ELSE Finding(control_id, "partial", severity, Measured)

_rule_data_004(r) ==
    LET em == _scope(r, "event-monitoring")
    IN IF Falsy(em) THEN _na("SBS-DATA-004", "high", ScopeNotCollected)
       ELSE LET tracked == _total(Get(em, "field_history_retention", EmptyDict))
            IN IF tracked = 0
               THEN Finding("SBS-DATA-004", "fail", "high", Measured)
               ELSE IF tracked < 10
               THEN Finding("SBS-DATA-004", "partial", "high", Measured)
               ELSE Finding("SBS-DATA-004", "pass", "high", Measured)

\* no scope is read
_rule_data_structural(control_id, severity, r) ==
    Finding(control_id, "partial", severity, Measured)

\* variant: a score of exactly 80 is still partial
_rule_secconf_001_above80(r) ==
    LET secconf == _scope(r, "secconf")
    IN IF Falsy(secconf) THEN _na("SBS-SECCONF-001", "high", ScopeNotCollected)
       ELSE LET hc == Get(secconf, "health_check", EmptyDict)
                records == _records(hc)
                hc_score == Get(records[1], "Score", 0)
            IN IF "note" \in DOMAIN hc
               THEN Finding("SBS-SECCONF-001", "partial", "high", Measured)
               ELSE IF Len(records) = 0
               THEN Finding("SBS-SECCONF-001", "partial", "high", Measured)
               ELSE IF hc_score < 50
               THEN Finding("SBS-SECCONF-001", "fail", "high", Measured)
               ELSE IF hc_score <= 80
               THEN Finding("SBS-SECCONF-001", "partial", "high", Measured)
               ELSE Finding("SBS-SECCONF-001", "pass", "high", Measured)

_rule_secconf_001(r) ==
    LET secconf == _scope(r, "secconf")
    IN IF Falsy(secconf) THEN _na("SBS-SECCONF-001", "high", ScopeNotCollected)
       ELSE LET hc == Get(secconf, "health_check", EmptyDict)
                records == _records(hc)
                hc_score == Get(records[1], "Score", 0)
            IN IF "note" \in DOMAIN hc
               THEN Finding("SBS-SECCONF-001", "partial", "high", Measured)
               ELSE IF Len(records) = 0
               THEN Finding("SBS-SECCONF-001", "partial", "high", Measured)
               ELSE IF hc_score < 50
               THEN Finding("SBS-SECCONF-001", "fail", "high", Measured)
               ELSE IF hc_score < 80
               THEN Finding("SBS-SECCONF-001", "partial", "high", Measured)
               ELSE Finding("SBS-SECCONF-001", "pass", "high", Measured)

_rule_secconf_002(r) ==
    LET secconf == _scope(r, "secconf")
    IN IF Falsy(secconf) THEN _na("SBS-SECCONF-002", "high", ScopeNotCollected)
       ELSE LET hc == Get(secconf, "health_check", EmptyDict)
                records == _records(hc)
                hc_score == Get(records[1], "Score", 0)
            IN IF Len(records) = 0
               THEN Finding("SBS-SECCONF-002", "partial", "high", Measured)
               ELSE IF hc_score < 50
               THEN Finding("SBS-SECCONF-002", "fail", "high", Measured)
               ELSE IF hc_score < 80
               THEN Finding("SBS-SECCONF-002", "partial", "high", Measured)
               ELSE Finding("SBS-SECCONF-002", "pass", "high", Measured)

_rule_dep_003(r) ==
    LET ts == _scope(r, "transaction-security")
    IN IF Falsy(ts) THEN _na("SBS-DEP-003", "high", ScopeNotCollected)
       ELSE LET policies == _records(Get(ts, "policies", EmptyDict))
                IsEnabled(p) == Flag(p, "IsEnabled")
            IN IF Len(policies) = 0
               THEN Finding("SBS-DEP-003", "fail", "high", Measured)
               ELSE IF Count({i \in DOMAIN policies : IsEnabled(policies[i])}) = 0
               THEN Finding("SBS-DEP-003", "partial", "high", Measured)
               ELSE Finding("SBS-DEP-003", "pass", "high", Measured)

_rule_not_collectable(control_id, severity, reason, r) ==
    _na(control_id, severity, reason)

\* the reasons shared by the not-collectable rules (their first clause)
_CODE_NA == "Requires source code review"
_PORTAL_NA == "Requires Apex/LWC code audit"
_DEP_NA == "Requires CI/CD and source repository audit"
_FILE_NA == "Requires manual content link review"
_FDNS_NA == "Foundational governance control"

\* the keys of RULES, in the order of the registry
RuleIds ==
    <<"SBS-AUTH-001", "SBS-AUTH-002", "SBS-AUTH-003", "SBS-AUTH-004",
      "SBS-ACS-001", "SBS-ACS-002", "SBS-ACS-003", "SBS-ACS-004", "SBS-ACS-005",
      "SBS-ACS-006", "SBS-ACS-007", "SBS-ACS-008", "SBS-ACS-009", "SBS-ACS-010",
      "SBS-ACS-011", "SBS-ACS-012",
      "SBS-INT-001", "SBS-INT-002", "SBS-INT-003", "SBS-INT-004",
      "SBS-OAUTH-001", "SBS-OAUTH-002", "SBS-OAUTH-003", "SBS-OAUTH-004",
      "SBS-DATA-001", "SBS-DATA-002", "SBS-DATA-003", "SBS-DATA-004",
      "SBS-SECCONF-001", "SBS-SECCONF-002",
      "SBS-DEP-001", "SBS-DEP-002", "SBS-DEP-003", "SBS-DEP-005", "SBS-DEP-006",
      "SBS-CODE-001", "SBS-CODE-002", "SBS-CODE-003", "SBS-CODE-004",
      "SBS-CPORTAL-001", "SBS-CPORTAL-002",
      "SBS-FILE-001", "SBS-FILE-002", "SBS-FILE-003",
      "SBS-FDNS-001">>

\* cid in RULES
HasRule(cid) == \E i \in 1..Len(RuleIds) : RuleIds[i] = cid

\* the scope the rule of cid asks _scope for, or NoKey for a rule that reads none
RuleScope(cid) ==
    CASE cid \in {"SBS-AUTH-001", "SBS-AUTH-002", "SBS-AUTH-003", "SBS-AUTH-004"} -> "auth"
      [] cid \in {"SBS-ACS-001", "SBS-ACS-002", "SBS-ACS-003", "SBS-ACS-004", "SBS-ACS-005",
                  "SBS-ACS-006", "SBS-ACS-007", "SBS-ACS-008", "SBS-ACS-009", "SBS-ACS-010",
                  "SBS-ACS-011", "SBS-ACS-012"} -> "access"
      [] cid \in {"SBS-INT-002", "SBS-INT-003"} -> "integrations"
      [] cid \in {"SBS-INT-004", "SBS-DATA-004"} -> "event-monitoring"
      [] cid \in {"SBS-OAUTH-001", "SBS-OAUTH-002", "SBS-OAUTH-003", "SBS-OAUTH-004"} -> "oauth"
      [] cid \in {"SBS-SECCONF-001", "SBS-SECCONF-002"} -> "secconf"
      [] cid = "SBS-DEP-003" -> "transaction-security"
      [] OTHER -> NoKey

\* the keys of RULES registered with _rule_not_collectable
NotCollectable ==
    {"SBS-INT-001", "SBS-DEP-001", "SBS-DEP-002", "SBS-DEP-005", "SBS-DEP-006",
     "SBS-CODE-001", "SBS-CODE-002", "SBS-CODE-003", "SBS-CODE-004",
     "SBS-CPORTAL-001", "SBS-CPORTAL-002",
     "SBS-FILE-001", "SBS-FILE-002", "SBS-FILE-003", "SBS-FDNS-001"}

\* RULES[cid](r), for cid a key of RULES
RULES(cid, r) ==
    CASE cid = "SBS-AUTH-001" -> _rule_auth_001(r)
      [] cid = "SBS-AUTH-002" -> _rule_auth_002(r)
      [] cid = "SBS-AUTH-003" -> _rule_auth_003(r)
      [] cid = "SBS-AUTH-004" -> _rule_auth_004(r)
      [] cid = "SBS-ACS-001" -> _rule_acs_001(r)
      [] cid = "SBS-ACS-002" -> _rule_acs_002(r)
      [] cid = "SBS-ACS-003" -> _rule_acs_003(r)
      [] cid = "SBS-ACS-004" -> _rule_acs_004(r)
      [] cid = "SBS-ACS-005" -> _rule_acs_structural("SBS-ACS-005", "high", r)
      [] cid = "SBS-ACS-006" -> _rule_acs_structural("SBS-ACS-006", "critical", r)
      [] cid = "SBS-ACS-007" -> _rule_acs_structural("SBS-ACS-007", "high", r)
      [] cid = "SBS-ACS-008" -> _rule_acs_structural("SBS-ACS-008", "high", r)
      [] cid = "SBS-ACS-009" -> _rule_acs_structural("SBS-ACS-009", "moderate", r)
      [] cid = "SBS-ACS-010" -> _rule_acs_structural("SBS-ACS-010", "moderate", r)
      [] cid = "SBS-ACS-011" -> _rule_acs_structural("SBS-ACS-011", "high", r)
      [] cid = "SBS-ACS-012" -> _rule_acs_structural("SBS-ACS-012", "moderate", r)
      [] cid = "SBS-INT-001" -> _rule_not_collectable("SBS-INT-001", "moderate",
                                    "Browser extension inventory requires manual review", r)
      [] cid = "SBS-INT-002" -> _rule_int_002(r)
      [] cid = "SBS-INT-003" -> _rule_int_003(r)
      [] cid = "SBS-INT-004" -> _rule_int_004(r)
      [] cid = "SBS-OAUTH-001" -> _rule_oauth_001(r)
      [] cid = "SBS-OAUTH-002" -> _rule_oauth_002(r)
      [] cid = "SBS-OAUTH-003" -> _rule_oauth_structural("SBS-OAUTH-003", "high", r)
      [] cid = "SBS-OAUTH-004" -> _rule_oauth_structural("SBS-OAUTH-004", "moderate", r)
      [] cid = "SBS-DATA-001" -> _rule_data_structural("SBS-DATA-001", "high", r)
      [] cid = "SBS-DATA-002" -> _rule_data_structural("SBS-DATA-002", "moderate", r)
      [] cid = "SBS-DATA-003" -> _rule_data_structural("SBS-DATA-003", "high", r)
      [] cid = "SBS-DATA-004" -> _rule_data_004(r)
      [] cid = "SBS-SECCONF-001" -> _rule_secconf_001(r)
      [] cid = "SBS-SECCONF-002" -> _rule_secconf_002(r)
      [] cid = "SBS-DEP-001" -> _rule_not_collectable("SBS-DEP-001", "high", _DEP_NA, r)
      [] cid = "SBS-DEP-002" -> _rule_not_collectable("SBS-DEP-002", "high", _DEP_NA, r)
      [] cid = "SBS-DEP-003" -> _rule_dep_003(r)
      [] cid = "SBS-DEP-005" -> _rule_not_collectable("SBS-DEP-005", "critical", _DEP_NA, r)
      [] cid = "SBS-DEP-006" -> _rule_not_collectable("SBS-DEP-006", "high", _DEP_NA, r)
      [] cid = "SBS-CODE-001" -> _rule_not_collectable("SBS-CODE-001", "moderate", _CODE_NA, r)
      [] cid = "SBS-CODE-002" -> _rule_not_collectable("SBS-CODE-002", "moderate", _CODE_NA, r)
      [] cid = "SBS-CODE-003" -> _rule_not_collectable("SBS-CODE-003", "high", _CODE_NA, r)
      [] cid = "SBS-CODE-004" -> _rule_not_collectable("SBS-CODE-004", "critical", _CODE_NA, r)
      [] cid = "SBS-CPORTAL-001" ->
             _rule_not_collectable("SBS-CPORTAL-001", "critical", _PORTAL_NA, r)
      [] cid = "SBS-CPORTAL-002" ->
             _rule_not_collectable("SBS-CPORTAL-002", "critical", _PORTAL_NA, r)
      [] cid = "SBS-FILE-001" -> _rule_not_collectable("SBS-FILE-001", "moderate", _FILE_NA, r)
      [] cid = "SBS-FILE-002" -> _rule_not_collectable("SBS-FILE-002", "moderate", _FILE_NA, r)
      [] cid = "SBS-FILE-003" -> _rule_not_collectable("SBS-FILE-003", "moderate", _FILE_NA, r)
      [] cid = "SBS-FDNS-001" -> _rule_not_collectable("SBS-FDNS-001", "moderate", _FDNS_NA, r)

\* one entry of the table: (status, observed_value, remediation)
Override(status, observed, remediation) ==
    [status |-> status, observed |-> observed, remediation |-> remediation]

\* _DRY_RUN_OVERRIDES: control id -> (status, observed_value, remediation); the
\* texts are those of the source, with <=, >= and - for the signs outside ASCII
_DRY_RUN_OVERRIDES ==
    "SBS-AUTH-001" :> Override("fail",
        "No SSO providers configured [dry-run]",
        "Configure org-wide SSO.") @@
    "SBS-AUTH-002" :> Override("partial",
        "SSO not configured - bypass governance N/A [dry-run]",
        "") @@
    "SBS-AUTH-003" :> Override("fail",
        "No Login IP Ranges found [dry-run]",
        "Add Login IP Ranges to privileged profiles.") @@
    "SBS-AUTH-004" :> Override("partial",
        "MFA org settings unconfirmed [dry-run]",
        "Verify MFA in Setup > Identity Verification.") @@
    "SBS-ACS-001" :> Override("fail",
        "8 admin profiles with ModifyAllData [dry-run]",
        "Reduce to <=2 admin profiles.") @@
    "SBS-ACS-002" :> Override("partial",
        "6 elevated permission sets [dry-run]",
        "Document justification for all elevated sets.") @@
    "SBS-ACS-003" :> Override("fail",
        "All 4 connected apps allow all users [dry-run]",
        "Apply admin-approved policy.") @@
    "SBS-ACS-004" :> Override("partial",
        "2 super admin-equivalent profiles [dry-run]",
        "Document justification.") @@
    "SBS-ACS-005" :> Override("partial",
        "Requires profile audit [dry-run]",
        "Run detailed profile review.") @@
    "SBS-ACS-006" :> Override("partial",
        "Requires permission set audit [dry-run]",
        "Audit Use Any API Client grants.") @@
    "SBS-ACS-007" :> Override("partial",
        "Non-human identity inventory required [dry-run]",
        "Build NHI inventory.") @@
    "SBS-ACS-008" :> Override("partial",
        "NHI privilege scope requires audit [dry-run]",
        "Restrict NHI permissions.") @@
    "SBS-ACS-009" :> Override("partial",
        "Compensating controls require manual review [dry-run]",
        "") @@
    "SBS-ACS-010" :> Override("fail",
        "No access review process evidence found [dry-run]",
        "Implement quarterly access reviews.") @@
    "SBS-ACS-011" :> Override("partial",
        "Change governance process requires verification [dry-run]",
        "") @@
    "SBS-ACS-012" :> Override("partial",
        "Login hour restrictions require profile audit [dry-run]",
        "") @@
    "SBS-INT-002" :> Override("fail",
        "3 active remote sites have protocol security disabled [dry-run]",
        "Enable protocol security.") @@
    "SBS-INT-003" :> Override("pass",
        "12 Named Credentials found [dry-run]",
        "") @@
    "SBS-INT-004" :> Override("partial",
        "5 event types found but no API-specific types [dry-run]",
        "Enable ApiEvent type.") @@
    "SBS-OAUTH-001" :> Override("fail",
        "3 connected apps allow all users [dry-run]",
        "Restrict to admin-approved.") @@
    "SBS-OAUTH-002" :> Override("partial",
        "2/5 apps lack admin-approved restriction [dry-run]",
        "Apply policy to all apps.") @@
    "SBS-OAUTH-003" :> Override("partial",
        "Criticality classification not documented [dry-run]",
        "Classify all connected apps.") @@
    "SBS-OAUTH-004" :> Override("partial",
        "Vendor due diligence documentation missing [dry-run]",
        "Complete vendor assessments.") @@
    "SBS-DATA-001" :> Override("partial",
        "Field scan required [dry-run]",
        "Run data classification scan.") @@
    "SBS-DATA-002" :> Override("partial",
        "Field inventory requires SOQL audit [dry-run]",
        "") @@
    "SBS-DATA-003" :> Override("partial",
        "Backup process not verifiable via API [dry-run]",
        "Verify backup schedule.") @@
    "SBS-DATA-004" :> Override("fail",
        "0 fields with history tracking enabled [dry-run]",
        "Enable field history tracking.") @@
    "SBS-SECCONF-001" :> Override("partial",
        "Health Check score: 64/100 [dry-run]",
        "Remediate to reach >=80%.") @@
    "SBS-SECCONF-002" :> Override("partial",
        "Score 64/100 - deviations remain [dry-run]",
        "Address all failing items.") @@
    "SBS-DEP-003" :> Override("fail",
        "No Transaction Security Policies found [dry-run]",
        "Create TSPs for high-risk events.") @@
    "SBS-CODE-003" :> Override("partial",
        "Apex logging requires code audit [dry-run]",
        "") @@
    "SBS-CODE-004" :> Override("fail",
        "Sensitive data in logs cannot be ruled out [dry-run]",
        "Audit all Apex log statements.")

\* a JSON null in the catalog
JsonNull == "<null>"

\* str.lower() on the risk levels of the model
Lower(text) ==
    CASE text \in {"Critical", "CRITICAL", "critical"} -> "critical"
      [] text \in {"High", "high"} -> "high"
      [] text \in {"Moderate", "moderate"} -> "moderate"
      [] text \in {"Low", "low"} -> "low"
      [] text \in {"Medium", "medium"} -> "medium"
      [] text \in {"Informational", "informational"} -> "informational"
      [] OTHER -> text

\* control.get("control_id", "")
ControlId(control) == IF control.control_id = NoKey THEN "" ELSE control.control_id

\* (control.get("risk_level") or "moderate").lower()
ControlSeverity(control) ==
    IF control.risk_level \in {NoKey, JsonNull, ""} THEN Lower("moderate")
    ELSE Lower(control.risk_level)

\* variant: dry-run mode evaluates the rule on the collected input
ControlFinding_liveRuleInDryRun(r, control, dry) ==
    LET cid == ControlId(control)
        severity == ControlSeverity(control)
    IN IF ~HasRule(cid) THEN _na(cid, severity, NoRuleDefined)
       ELSE RULES(cid, IF Falsy(r) THEN EmptyDict ELSE r)

\* variant: dry-run mode never looks at the override table
ControlFinding_overridesIgnored(r, control, dry) ==
    LET cid == ControlId(control)
        severity == ControlSeverity(control)
    IN IF ~HasRule(cid) THEN _na(cid, severity, NoRuleDefined)
       ELSE IF dry THEN RULES(cid, EmptyDict)
       ELSE RULES(cid, IF Falsy(r) THEN EmptyDict ELSE r)

\* the finding of one iteration of the loop of run_assessment; r is raw
ControlFinding(r, control, dry) ==
    LET cid == ControlId(control)
        severity == ControlSeverity(control)
    IN IF ~HasRule(cid) THEN _na(cid, severity, NoRuleDefined)
       ELSE IF dry
       THEN IF cid \in DOMAIN _DRY_RUN_OVERRIDES
            THEN LET override == _DRY_RUN_OVERRIDES[cid]
                 IN FindingWith(cid, override.status, severity, override.observed,
                                override.remediation)
            ELSE RULES(cid, EmptyDict)
       ELSE RULES(cid, IF Falsy(r) THEN EmptyDict ELSE r)

RECURSIVE AssessLoop(_, _, _)
\* the findings the loop of run_assessment appends for the controls cs
AssessLoop(r, cs, dry) ==
    IF cs = <<>> THEN <<>>
    ELSE <<ControlFinding(r, Head(cs), dry)>> \o AssessLoop(r, Tail(cs), dry)

\* variant: a control without a rule is passed over
run_assessment_skipsUnruled(r, cs, dry) ==
    LET Ruled(c) == HasRule(ControlId(c))
    IN AssessLoop(r, SelectSeq(cs, Ruled), dry)

\* run_assessment(raw, controls, dry_run, org, env); org and env only enter the
\* evidence reference
run_assessment(r, cs, dry) == AssessLoop(r, cs, dry)

(***************************************************************************)
(* Inputs of run_assessment: collected inputs in the shape sfdc-connect    *)
(* writes ({scope: {result name: SOQL result}}), the scope payload given   *)
(* directly, an empty object and None; catalogs of controls as the         *)
(* importer writes them, risk_level being free text of the source XML.     *)
(***************************************************************************)
\* controls in a generated catalog
MaxControls == 2

SOQL(recs) == [totalSize |-> Len(recs), records |-> recs]
Rec(id) == [Id |-> id]
Ids(n) == [i \in 1..n |-> Rec(i)]

\* a scope whose collection raised
ScopeError == [error |-> "INVALID_SESSION_ID"]

WeakAuth ==
    [session_settings |-> [error |-> "NOT_FOUND", note |-> "Requires Tooling API access"],
     mfa_org_settings |-> [error |-> "NOT_FOUND", note |-> "requires API v57+"],
     sso_providers |-> SOQL(<<>>),
     login_ip_ranges |-> SOQL(<<>>),
     mfa_policies |-> SOQL(<<>>)]
MixedAuth ==
    [session_settings |-> SOQL(<<Rec(1)>>),
     mfa_org_settings |-> SOQL(<<[Id |-> 1, MultiFactorAuthenticationForUserUI |-> FALSE]>>),
     sso_providers |-> SOQL(<<[Id |-> 1, IsEnabled |-> FALSE]>>),
     login_ip_ranges |-> SOQL(Ids(2)),
     mfa_policies |-> SOQL(<<>>)]
StrongAuth ==
    [session_settings |-> SOQL(<<Rec(1)>>),
     mfa_org_settings |-> SOQL(<<[Id |-> 1, MultiFactorAuthenticationForUserUI |-> TRUE]>>),
     sso_providers |-> SOQL(<<[Id |-> 1, IsEnabled |-> TRUE]>>),
     login_ip_ranges |-> SOQL(Ids(3)),
     mfa_policies |-> SOQL(<<>>)]

Profile(id, mad, mu) ==
    [Id |-> id, PermissionsModifyAllData |-> mad, PermissionsManageUsers |-> mu]
App(id, approved) == [Id |-> id, OptionsAllowAdminApprovedUsersOnly |-> approved]
WeakAccess ==
    [admin_profiles |-> SOQL([i \in 1..6 |-> Profile(i, TRUE, i <= 3)]),
     elevated_permission_sets |-> SOQL(Ids(11)),
     connected_apps |-> SOQL(<<App(1, FALSE), App(2, FALSE)>>)]
MixedAccess ==
    [admin_profiles |-> SOQL([i \in 1..3 |-> Profile(i, TRUE, i <= 1)]),
     elevated_permission_sets |-> SOQL(Ids(5)),
     connected_apps |-> SOQL(<<App(1, TRUE), App(2, FALSE)>>)]
StrongAccess ==
    [admin_profiles |-> SOQL(<<Profile(1, TRUE, FALSE)>>),
     elevated_permission_sets |-> SOQL(Ids(1)),
     connected_apps |-> SOQL(<<App(1, TRUE)>>)]

Log(t) == [EventType |-> t]
WeakEvents == [event_log_types |-> SOQL(<<>>), field_history_retention |-> SOQL(<<>>)]
MixedEvents ==
    [event_log_types |-> SOQL(<<Log("Login"), Log("Report")>>),
     field_history_retention |-> SOQL(Ids(4))]
StrongEvents ==
    [event_log_types |-> SOQL(<<Log("Login"), Log("ApiEvent"), Log("RestApi")>>),
     field_history_retention |-> SOQL(Ids(10))]

Tsp(id, on) == [Id |-> id, IsEnabled |-> on]
WeakTsp == [policies |-> SOQL(<<>>)]
MixedTsp == [policies |-> SOQL(<<Tsp(1, FALSE)>>)]
StrongTsp == [policies |-> SOQL(<<Tsp(1, TRUE), Tsp(2, FALSE)>>)]

Site(id, active, insecure) ==
    [Id |-> id, IsActive |-> active, DisableProtocolSecurity |-> insecure]
WeakInt ==
    [named_credentials |-> SOQL(<<>>),
     remote_site_settings |-> SOQL(<<Site(1, TRUE, TRUE), Site(2, FALSE, TRUE)>>)]
MixedInt ==
    [named_credentials |-> SOQL(<<Rec(1)>>),
     remote_site_settings |-> SOQL(<<Site(1, TRUE, FALSE), Site(2, FALSE, TRUE)>>)]
StrongInt ==
    [named_credentials |-> SOQL(<<Rec(1), Rec(2)>>),
     remote_site_settings |-> SOQL(<<Site(1, TRUE, FALSE)>>)]

Policy(id, approved, permitted) ==
    [Id |-> id, OptionsAllowAdminApprovedUsersOnly |-> approved,
     PermittedUsersPolicyEnum |-> permitted]
WeakOauth ==
    [connected_app_oauth_policies |->
        SOQL(<<Policy(1, FALSE, "AllUsers"), Policy(2, FALSE, "")>>)]
MixedOauth ==
    [connected_app_oauth_policies |->
        SOQL(<<Policy(1, TRUE, "AdminApprovedPreAuthorized"), Policy(2, FALSE, "AllUsers")>>)]
StrongOauth ==
    [connected_app_oauth_policies |->
        SOQL(<<Policy(1, TRUE, "AdminApprovedPreAuthorized")>>)]

HealthNote == [health_check |-> [note |-> "SecurityHealthCheck not available via SOQL"]]
Health(sc) == [health_check |-> SOQL(<<[Score |-> sc]>>)]

\* the keys of SCOPE_COLLECTORS
ScopeNames == {"auth", "access", "event-monitoring", "transaction-security",
               "integrations", "oauth", "secconf"}

\* the output of sfdc-connect collect --scope all
AllScopes(auth, access, em, ts, integrations, oauth, secconf) ==
    "auth" :> auth @@ "access" :> access @@ "event-monitoring" :> em @@
    "transaction-security" :> ts @@ "integrations" :> integrations @@
    "oauth" :> oauth @@ "secconf" :> secconf

RawInputs ==
    << None,
       EmptyDict,
       AllScopes(WeakAuth, WeakAccess, WeakEvents, WeakTsp, WeakInt, WeakOauth, Health(42)),
       AllScopes(MixedAuth, MixedAccess, MixedEvents, MixedTsp, MixedInt, MixedOauth,
                 Health(64)),
       AllScopes(StrongAuth, StrongAccess, StrongEvents, StrongTsp, StrongInt,
                 StrongOauth, Health(91)),
       AllScopes(StrongAuth, MixedAccess, WeakEvents, StrongTsp, WeakInt, MixedOauth,
                 HealthNote),
       AllScopes(ScopeError, ScopeError, ScopeError, ScopeError, ScopeError, ScopeError,
                 [health_check |-> SOQL(<<>>)]),
       "auth" :> StrongAuth,
       "oauth" :> WeakOauth @@ "secconf" :> Health(80),
       MixedAuth,
       StrongAccess,
       MixedEvents,
       WeakTsp,
       MixedInt,
       WeakOauth,
       Health(49),
       Health(50),
       Health(79),
       "secconf" :> Health(80),
       "secconf" :> ScopeError >>

Control(cid, risk_level) == [control_id |-> cid, risk_level |-> risk_level]

\* controls a catalog is made of: with and without a rule, with and without a
\* dry-run override, and the risk levels an imported catalog can carry
ControlPool ==
    { Control("SBS-AUTH-001", "Critical"),
      Control("SBS-ACS-005", "High"),
      Control("SBS-DATA-001", "Medium"),
      Control("SBS-CODE-001", "Moderate"),
      Control("SBS-SECCONF-001", NoKey),
      Control("SBS-OAUTH-001", ""),
      Control("SBS-NEW-001", "Informational"),
      Control(NoKey, "Low") }

\* the severity each rule of the registry gives its control
RuleSeverity(cid) == RULES(cid, EmptyDict).severity

Capitalised(sev) ==
    CASE sev = "critical" -> "Critical"
      [] sev = "high" -> "High"
      [] sev = "moderate" -> "Moderate"
      [] OTHER -> "Low"

\* a catalog with one control per key of RULES, in the order of the registry
AllRulesCatalog ==
    [i \in 1..Len(RuleIds) |-> Control(RuleIds[i], Capitalised(RuleSeverity(RuleIds[i])))]

Catalogs == SeqsUpTo(ControlPool, MaxControls) \cup {AllRulesCatalog}

AssessInit ==
    /\ LoopIdle
    /\ MapIdle
    /\ ScoreIdle
    /\ BenchIdle
    /\ clock = <<>>
    /\ apc = "ready"
    /\ controls \in Catalogs
    /\ \E i \in 1..Len(RawInputs) : raw = RawInputs[i]
    /\ assess_dry_run \in BOOLEAN
    /\ findings = <<>>

\* findings = run_assessment(raw, controls, dry_run, org, env)
Assess ==
    /\ apc = "ready"
    /\ findings' = run_assessment(raw, controls, assess_dry_run)
    /\ apc' = "returned"
    /\ UNCHANGED <<controls, raw, assess_dry_run>>
    /\ UNCHANGED <<loopvars, mapvars, scorevars, benchvars, clock>>

AssessNext == Assess

SpecAssess == AssessInit /\ [][AssessNext]_vars

(***************************************************************************)
(* scripts/oscal_gap_map.py: the mapper.                                   *)
(*                                                                         *)
(* A finding, a catalog control and a crosswalk row are JSON objects with  *)
(* the keys the mapper reads, NoKey standing for a key that is missing; a  *)
(* table of the SSCF configuration is a function from its keys.            *)
(***************************************************************************)
\* a JSON value that is not an object: a string, a number, null
Scalar == [scalar |-> TRUE]

\* isinstance(x, dict)
IsDict(x) == "scalar" \notin DOMAIN x

\* d.get(k, default) for an object with the keys of the model
Field(d, k, default) == IF d[k] = NoKey THEN default ELSE d[k]

\* the control ids of the model that start with "SBS-"
CanonicalIds == {"SBS-AUTH-001", "SBS-ACS-001", "SBS-DATA-001", "SBS-OLD-999", "SBS-GONE-001"}

\* text.startswith("SBS-")
HasPrefix(text) == text \in CanonicalIds

\* text.strip(), on the texts of the model
Strip(text) ==
    CASE text = " SBS-AUTH-001 " -> "SBS-AUTH-001"
      [] text = "LEG-1 " -> "LEG-1"
      [] text = " " -> ""
      [] OTHER -> text

\* str(d.get(k, "")).strip()
StrippedField(d, k) == Strip(Field(d, k, ""))

\* _findings(gap): the entries of the findings list that are objects
_findings(entries) == SelectSeq(entries, IsDict)

\* {key(x): x for x in rows}, the last row of a key winning, over the rows
\* whose index is in keep; keys[i] is the key of rows[i]
DictOf(rows, keys, keep) ==
    [k \in {keys[i] : i \in keep} |->
        rows[CHOOSE i \in keep : keys[i] = k /\ \A j \in keep : keys[j] = k => j <= i]]

\* controls_by_id = {c.get("control_id"): c for c in controls if isinstance(c, dict)}
controls_by_id(cs) ==
    DictOf(cs, [i \in 1..Len(cs) |-> IF IsDict(cs[i]) THEN cs[i].control_id ELSE NoKey],
           {i \in 1..Len(cs) : IsDict(cs[i])})

\* map_by_legacy: the rows that are objects with a non-empty stripped legacy id
map_by_legacy(rows) ==
    LET key(i) == IF IsDict(rows[i]) THEN StrippedField(rows[i], "legacy_control_id") ELSE ""
    IN DictOf(rows, [i \in 1..Len(rows) |-> key(i)], {i \in 1..Len(rows) : key(i) # ""})

\* the None a dict.get returns for a control or a row that is not there
NoControl == [control_id |-> NoKey, title |-> NoKey, category |-> NoKey]
NoRow == [legacy_control_id |-> NoKey, sbs_control_id |-> NoKey,
          mapping_confidence |-> NoKey, notes |-> NoKey]

\* controls_by_id.get(sbs_control_id)
LookupControl(by_id, sbs_control_id) ==
    IF sbs_control_id \in DOMAIN by_id THEN by_id[sbs_control_id] ELSE NoControl

\* map_by_legacy.get(legacy_control_id)
LookupRow(by_legacy, legacy_control_id) ==
    IF legacy_control_id \in DOMAIN by_legacy THEN by_legacy[legacy_control_id] ELSE NoRow

\* variant: a control that is not in the catalog is taken as found
Missing_never(sbs) == FALSE

\* `not sbs`
Missing(sbs) == sbs = NoControl

\* table.get(k) or other: a missing key and an empty list are both falsy
GetOr(table, k, other) ==
    IF k \in DOMAIN table /\ table[k] # <<>> THEN table[k] ELSE other

\* sscf_overrides.get(sbs_control_id)
\*     or sscf_defaults_by_category.get(sbs.get("category", "")) or []
SscfMappings(cfg, sbs_control_id, sbs) ==
    GetOr(cfg.control_overrides, sbs_control_id,
          GetOr(cfg.defaults_by_category, Field(sbs, "category", ""), <<>>))

\* item["sscf_control_ids"]: the ids of the mappings that are objects with one
SscfControlIds(sscf_mappings) ==
    LET WithId(m) == IsDict(m) /\ m.sscf_control_id \notin {NoKey, ""}
        sel == SelectSeq(sscf_mappings, WithId)
    IN [i \in 1..Len(sel) |-> sel[i].sscf_control_id]

DirectNotes == "Direct collector mapping (SBS control ID emitted by collector)."

\* an entry of mapped_items, with the finding's fields the scorer reads
MappedItem(legacy_control_id, sbs_control_id, sbs, finding, notes, confidence, cfg) ==
    LET sscf_mappings == SscfMappings(cfg, sbs_control_id, sbs)
    IN [legacy_control_id |-> legacy_control_id,
        sbs_control_id |-> sbs_control_id,
        sbs_title |-> Field(sbs, "title", ""),
        status |-> Field(finding, "status", ""),
        severity |-> Field(finding, "severity", ""),
        mapping_notes |-> notes,
        mapping_confidence |-> confidence,
        sscf_mappings |-> sscf_mappings,
        sscf_control_ids |-> SscfControlIds(sscf_mappings)]

\* an entry of unmapped_items
UnmappedItem(legacy_control_id, finding) ==
    [legacy_control_id |-> legacy_control_id,
     status |-> Field(finding, "status", ""),
     severity |-> Field(finding, "severity", "")]

\* the entries of invalid_mapping_entries
InvalidDirect(legacy_control_id) ==
    legacy_control_id \o " -> " \o legacy_control_id
        \o " (SBS control not found in imported catalog)"
InvalidCrosswalk(legacy_control_id, sbs_control_id) ==
    legacy_control_id \o " -> " \o sbs_control_id \o " (not found in imported catalog)"


\* the branch of the loop body for an id that is not canonical (187-221)
RouteByCrosswalk(legacy_control_id, finding, by_id, by_legacy, cfg) ==
    LET map_row == LookupRow(by_legacy, legacy_control_id)
        sbs_control_id == StrippedField(map_row, "sbs_control_id")
        sbs == LookupControl(by_id, sbs_control_id)
    IN IF map_row = NoRow
       THEN [bucket |-> "unmapped", entry |-> UnmappedItem(legacy_control_id, finding)]
       ELSE IF Missing(sbs)
       THEN [bucket |-> "invalid", entry |-> InvalidCrosswalk(legacy_control_id, sbs_control_id)]
       ELSE [bucket |-> "mapped",
             entry |-> MappedItem(legacy_control_id, sbs_control_id, sbs, finding,
                                  Field(map_row, "notes", ""),
                                  Field(map_row, "mapping_confidence", "unrated"), cfg)]

\* the branch of the loop body for a canonical id (158-185)
RouteDirect(legacy_control_id, finding, by_id, cfg) ==
    LET sbs == LookupControl(by_id, legacy_control_id)
    IN IF Missing(sbs)
       THEN [bucket |-> "invalid", entry |-> InvalidDirect(legacy_control_id)]
       ELSE [bucket |-> "mapped",
             entry |-> MappedItem(legacy_control_id, legacy_control_id, sbs, finding,
                                  DirectNotes, "high", cfg)]

\* variant: the crosswalk is looked up first, whatever the id
RouteFinding_crosswalkFirst(finding, by_id, by_legacy, cfg) ==
    LET legacy_control_id == StrippedField(finding, "control_id")
    IN IF legacy_control_id \in DOMAIN by_legacy \/ ~HasPrefix(legacy_control_id)
       THEN RouteByCrosswalk(legacy_control_id, finding, by_id, by_legacy, cfg)
       ELSE RouteDirect(legacy_control_id, finding, by_id, cfg)

\* one iteration of `for finding in findings`: the bucket the finding goes to
\* and the entry appended to it
RouteFinding(finding, by_id, by_legacy, cfg) ==
    LET legacy_control_id == StrippedField(finding, "control_id")
    IN IF HasPrefix(legacy_control_id)
       THEN RouteDirect(legacy_control_id, finding, by_id, cfg)
       ELSE RouteByCrosswalk(legacy_control_id, finding, by_id, by_legacy, cfg)

\* _status_summary(items)
_status_summary(its) ==
    [st \in {"pass", "fail", "partial", "not_applicable"} |->
        Cardinality({i \in 1..Len(its) : its[i].status = st})]

\* summary["mapping_confidence_counts"]
ConfidenceCounts(its) ==
    [c \in {its[i].mapping_confidence : i \in 1..Len(its)} |->
        Cardinality({i \in 1..Len(its) : its[i].mapping_confidence = c})]

\* backlog_payload (231-251), routed being the outcome of each iteration of
\* the loop; the markdown matrix renders the same three lists
BacklogPayload(by_id, findings_, routed) ==
    LET Bucket(b) == LET In(x) == x.bucket = b
                         sel == SelectSeq(routed, In)
                     IN [i \in 1..Len(sel) |-> sel[i].entry]
        mapped_items == Bucket("mapped")
        unmapped_items == Bucket("unmapped")
        invalid_mapping_entries == Bucket("invalid")
    IN [summary |->
            [catalog_controls |-> Cardinality(DOMAIN by_id),
             findings_total |-> Len(findings_),
             mapped_findings |-> Len(mapped_items),
             unmapped_findings |-> Len(unmapped_items),
             invalid_mapping_entries |-> Len(invalid_mapping_entries),
             status_counts |-> _status_summary(mapped_items),
             mapping_confidence_counts |-> ConfidenceCounts(mapped_items)],
        mapped_items |-> mapped_items,
        unmapped_items |-> unmapped_items,
        invalid_mapping_entries |-> invalid_mapping_entries]

\* variant: the mapper stops at the first finding it cannot map
main_stopsAtUnmapped(entries, cs, rows, cfg) ==
    LET findings_ == _findings(entries)
        by_id == controls_by_id(cs)
        routed == [i \in 1..Len(findings_) |->
                      RouteFinding(findings_[i], by_id, map_by_legacy(rows), cfg)]
        stop == IF \E i \in 1..Len(routed) : routed[i].bucket = "unmapped"
                THEN CHOOSE i \in 1..Len(routed) :
                        /\ routed[i].bucket = "unmapped"
                        /\ \A j \in 1..(i - 1) : routed[j].bucket # "unmapped"
                ELSE Len(routed)
    IN BacklogPayload(by_id, findings_, SubSeq(routed, 1, stop))

\* main(): the backlog payload written for the findings value entries, the
\* catalog controls cs, the crosswalk rows and the SSCF configuration cfg
main(entries, cs, rows, cfg) ==
    LET findings_ == _findings(entries)
        by_id == controls_by_id(cs)
        by_legacy == map_by_legacy(rows)
        routed == [i \in 1..Len(findings_) |->
                      RouteFinding(findings_[i], by_id, by_legacy, cfg)]
    IN BacklogPayload(by_id, findings_, routed)

(***************************************************************************)
(* Inputs of the mapper: gap analyses with canonical, padded, legacy and   *)
(* missing control ids and an entry that is not an object; catalogs;       *)
(* crosswalks; SSCF configurations with and without overrides.             *)
(***************************************************************************)
\* entries in a generated findings list
MaxFindings == 3

\* the "findings" value of a gap analysis: a list of entries, or not a list
FindingsList(entries) == [is_list |-> TRUE, entries |-> entries]
NotAList == [is_list |-> FALSE, entries |-> <<>>]

FindingPool ==
    { F("SBS-AUTH-001", "fail", "critical"),
      F(" SBS-AUTH-001 ", "pass", "critical"),
      F("SBS-ACS-001", "partial", "high"),
      F("SBS-OLD-999", "fail", "high"),
      F("LEG-1", "pass", "moderate"),
      F("LEG-2", "fail", NoKey),
      F("LEG-9", NoKey, "low"),
      F(NoKey, "not_applicable", "low"),
      Scalar }

CatalogControl(cid, title, category) ==
    [control_id |-> cid, title |-> title, category |-> category]
MapCatalogs ==
    { <<>>,
      <<CatalogControl("SBS-AUTH-001", "SSO enforcement", "Authentication"),
        CatalogControl("SBS-ACS-001", "Permission set model", "Access Controls"),
        CatalogControl("SBS-DATA-001", NoKey, NoKey)>>,
      <<CatalogControl("SBS-AUTH-001", "SSO (old title)", "Integrations"),
        Scalar,
        CatalogControl("SBS-AUTH-001", "SSO enforcement", "Authentication"),
        CatalogControl(NoKey, "No id", "Authentication")>> }

Row(legacy, sbs_id, confidence, notes) ==
    [legacy_control_id |-> legacy, sbs_control_id |-> sbs_id,
     mapping_confidence |-> confidence, notes |-> notes]
Crosswalks ==
    { <<>>,
      <<Row("LEG-1", "SBS-ACS-001", "medium", "Legacy access control"),
        Row("LEG-2", "SBS-GONE-001", NoKey, NoKey)>>,
      <<Row("SBS-AUTH-001", "SBS-ACS-001", "low", "Shadows a canonical id"),
        Row(NoKey, "SBS-ACS-001", "low", NoKey),
        Scalar,
        Row("LEG-1 ", " SBS-AUTH-001 ", NoKey, "Padded")>> }

Sscf(id) == [sscf_control_id |-> id]
SscfDefaults ==
    "Authentication" :> <<Sscf("SSCF-IAM-001"), Sscf("SSCF-IAM-002")>> @@
    "Access Controls" :> <<Sscf("SSCF-IAM-003"), Sscf(NoKey)>>
SscfConfigs ==
    { [defaults_by_category |-> SscfDefaults,
       control_overrides |-> "SBS-AUTH-001" :> <<Sscf("SSCF-LOG-001")>>],
      [defaults_by_category |-> SscfDefaults,
       control_overrides |-> "SBS-AUTH-001" :> <<>> @@ "SBS-DATA-001" :> <<Sscf("SSCF-DSP-001")>>],
      [defaults_by_category |-> [k \in {} |-> <<>>],
       control_overrides |-> [k \in {} |-> <<>>]] }

GapInputs == {FindingsList(q) : q \in SeqsUpTo(FindingPool, MaxFindings)} \cup {NotAList}

MapInit ==
    /\ LoopIdle
    /\ AssessIdle
    /\ ScoreIdle
    /\ BenchIdle
    /\ clock = <<1>>
    /\ mpc = "ready"
    /\ gap_findings \in GapInputs
    /\ controls_payload \in MapCatalogs
    /\ mappings \in Crosswalks
    /\ sscf_map_cfg \in SscfConfigs
    /\ backlog_payload = EmptyDict
    /\ prev_backlog_payload = EmptyDict

\* out_json.write_text(json.dumps(backlog_payload)): the payload with the
\* fields main() takes from the gap analysis and from the clock; the gap
\* analyses of the model carry no assessment_id
Written(payload, now) ==
    [assessment_id |-> "unknown-assessment", generated_at_utc |-> now,
     framework |-> "CSA_SSCF"] @@ payload

\* main() runs to the end and writes the backlog
MapOk ==
    /\ mpc = "ready"
    /\ gap_findings.is_list
    /\ backlog_payload' =
           Written(main(gap_findings.entries, controls_payload, mappings, sscf_map_cfg),
                   Head(clock))
    /\ clock' = Tail(clock)
    /\ mpc' = "returned"
    /\ UNCHANGED <<gap_findings, controls_payload, mappings, sscf_map_cfg,
                   prev_backlog_payload>>
    /\ UNCHANGED <<loopvars, assessvars, scorevars, benchvars>>

\* _findings raises ValueError: the findings value is not a list
MapRaises ==
    /\ mpc = "ready"
    /\ ~gap_findings.is_list
    /\ mpc' = "raised"
    /\ UNCHANGED <<gap_findings, controls_payload, mappings, sscf_map_cfg, backlog_payload,
                   prev_backlog_payload>>
    /\ UNCHANGED <<loopvars, assessvars, scorevars, benchvars, clock>>

MapNext == MapOk \/ MapRaises

SpecMap == MapInit /\ [][MapNext]_vars

(***************************************************************************)
(* skills/sscf_benchmark/sscf_benchmark.py: the scoring helper.            *)
(* Scores are kept in 1/10000, the unit of round(score, 4).                *)
(***************************************************************************)
\* the items whose item.get("status", "") is st
StatusCount(its, st) ==
    Cardinality({i \in 1..Len(its) : Field(its[i], "status", "") = st})

\* variant: the score is cut after the fourth decimal
Round4_truncates(n, d) == (n * 10000) \div d

\* round(n / d, 4) in 1/10000, for n >= 0 and d > 0: the nearest multiple of
\* 0.0001, and the even one when n / d lies halfway between two.  The float
\* n / d is exact in a halfway case as long as d has no odd factor that n lacks,
\* which is so for every unit of fewer than 80 scoreable items.
Round4(n, d) ==
    LET q == n * 10000
        fl == q \div d
        rem == q % d
    IN IF 2 * rem < d THEN fl
       ELSE IF 2 * rem > d THEN fl + 1
       ELSE IF fl % 2 = 0 THEN fl ELSE fl + 1

\* _score_findings(items): (pass, partial, fail, not_applicable, score)
_score_findings(its) ==
    LET pass == StatusCount(its, "pass")
        partial == StatusCount(its, "partial")
        fail == StatusCount(its, "fail")
        not_applicable == StatusCount(its, "not_applicable")
        scoreable == pass + partial + fail
        \* (pass * 1.0 + partial * 0.5) / scoreable
        unit_score == IF scoreable = 0 THEN 10000
                      ELSE Round4(2 * pass + partial, 2 * scoreable)
    IN <<pass, partial, fail, not_applicable, unit_score>>

(***************************************************************************)
(* Inputs of the scoring helper: the items of an aggregation unit.         *)
(***************************************************************************)
\* scoreable items in a unit generated from counts
MaxScoreable == 16
\* items in a unit generated in every order
MaxItems == 3

Item(st) == [status |-> st]
Repeat(st, n) == [i \in 1..n |-> Item(st)]

\* the statuses an item can carry: the four of the pipeline, none, another
ItemStatuses == {"pass", "partial", "fail", "not_applicable", NoKey, "error"}

\* the units of t[1] pass, t[2] partial, t[3] fail and t[4] not_applicable
\* items with at most MaxScoreable scoreable ones, and every unit of at most
\* MaxItems items in every order
ScoreInputs ==
    { Repeat("pass", t[1]) \o Repeat("not_applicable", t[4]) \o Repeat("partial", t[2])
          \o Repeat("fail", t[3]) :
        t \in {u \in (0..MaxScoreable) \X (0..MaxScoreable) \X (0..MaxScoreable) \X (0..1) :
                  u[1] + u[2] + u[3] <= MaxScoreable} }
    \cup SeqsUpTo({Item(st) : st \in ItemStatuses}, MaxItems)

ScoreInit ==
    /\ LoopIdle
    /\ AssessIdle
    /\ MapIdle
    /\ BenchIdle
    /\ clock = <<>>
    /\ spc = "ready"
    /\ items \in ScoreInputs
    /\ scored = <<>>

\* scored = _score_findings(items)
ScoreFindings ==
    /\ spc = "ready"
    /\ scored' = _score_findings(items)
    /\ spc' = "returned"
    /\ UNCHANGED items
    /\ UNCHANGED <<loopvars, assessvars, mapvars, benchvars, clock>>

ScoreNext == ScoreFindings

SpecScore == ScoreInit /\ [][ScoreNext]_vars

(***************************************************************************)
(* skills/sscf_benchmark/sscf_benchmark.py: the domain scorecard.          *)
(* A backlog item and a control of the SSCF index are objects with the     *)
(* keys the benchmark reads; sscf_index is the function from the ids of    *)
(* the index to its controls.                                              *)
(***************************************************************************)
\* variant: a score equal to the green threshold is amber
_domain_status_strictGreen(sc, th) ==
    IF sc > th THEN "green" ELSE IF sc >= 5000 THEN "amber" ELSE "red"

\* variant: a score of exactly 0.50 is red
_domain_status_strictAmber(sc, th) ==
    IF sc >= th THEN "green" ELSE IF sc > 5000 THEN "amber" ELSE "red"

\* _domain_status(score, threshold), both in 1/10000
_domain_status(sc, th) ==
    IF sc >= th THEN "green" ELSE IF sc >= 5000 THEN "amber" ELSE "red"

\* _load_sscf_index: the controls with a non-empty id, keyed by it
_load_sscf_index(ctrls) ==
    LET key(i) == Field(ctrls[i], "sscf_control_id", "")
    IN DictOf(ctrls, [i \in 1..Len(ctrls) |-> key(i)], {i \in 1..Len(ctrls) : key(i) # ""})

\* the domain names and control ids of the model, in the order of sorted()
Ascending ==
    <<"CON", "DSP", "IAM", "LOG",
      "SSCF-CON-001", "SSCF-DSP-001", "SSCF-IAM-001", "SSCF-IAM-002", "SSCF-IAM-003",
      "SSCF-LOG-001">>

\* sorted(names)
Sorted(names) ==
    LET Named(x) == x \in names
    IN SelectSeq(Ascending, Named)

\* the concatenation of the lists of a list
RECURSIVE Flatten(_)
Flatten(lists) ==
    IF lists = <<>> THEN <<>> ELSE Head(lists) \o Flatten(Tail(lists))

\* variant: an item is appended to the first control of the index it names
\* and to no other
Appended_firstOnly(mapped_items, sscf_index, sscf_cid) ==
    LET Indexed(x) == x \in DOMAIN sscf_index
        First(item) == LET hits == SelectSeq(item.sscf_control_ids, Indexed)
                       IN hits # <<>> /\ Head(hits) = sscf_cid
    IN SelectSeq(mapped_items, First)

\* domain_controls[domain][sscf_cid] after the distribution loop (102-111):
\* the item once for each time its sscf_control_ids name sscf_cid, in the
\* order of mapped_items
Appended(mapped_items, sscf_index, sscf_cid) ==
    LET Times(item) ==
            LET Is(x) == x = sscf_cid /\ x \in DOMAIN sscf_index
                hits == SelectSeq(item.sscf_control_ids, Is)
            IN [j \in 1..Len(hits) |-> item]
    IN Flatten([i \in 1..Len(mapped_items) |-> Times(mapped_items[i])])

\* `placed` at the end of an iteration of the distribution loop
Placed(item, sscf_index) ==
    \E j \in 1..Len(item.sscf_control_ids) : item.sscf_control_ids[j] \in DOMAIN sscf_index

\* unmatched_items
Unmatched(mapped_items, sscf_index) ==
    LET NotPlaced(item) == ~Placed(item, sscf_index)
    IN SelectSeq(mapped_items, NotPlaced)

\* variant: the worst status prefers partial to fail
WorstStatus_partialFirst(statuses) ==
    IF "partial" \in statuses THEN "partial"
    ELSE IF "fail" \in statuses THEN "fail"
    ELSE IF "pass" \in statuses THEN "pass"
    ELSE "not_applicable"

\* `worst` (123-131) for the statuses of the items of a control
WorstStatus(statuses) ==
    IF "fail" \in statuses THEN "fail"
    ELSE IF "partial" \in statuses THEN "partial"
    ELSE IF "pass" \in statuses THEN "pass"
    ELSE "not_applicable"

\* i.get("sbs_control_id", i.get("legacy_control_id", ""))
FindingId(item) == Field(item, "sbs_control_id", Field(item, "legacy_control_id", ""))

\* an entry of control_detail (132-140)
ControlDetail(sscf_cid, ctrl_meta, its) ==
    [sscf_control_id |-> sscf_cid,
     title |-> Field(ctrl_meta, "title", ""),
     owner_team |-> Field(ctrl_meta, "owner_team", ""),
     findings |-> [i \in 1..Len(its) |-> FindingId(its[i])],
     worst_status |-> IF its # <<>>
                      THEN WorstStatus({Field(its[i], "status", "") : i \in 1..Len(its)})
                      ELSE "not_applicable"]

\* an entry of domain_results (113-155) for a domain of the index
DomainResult(domain, mapped_items, sscf_index, th) ==
    LET cids == Sorted({c \in DOMAIN sscf_index : sscf_index[c].domain = domain})
        its(c) == Appended(mapped_items, sscf_index, c)
        domain_items == Flatten([k \in 1..Len(cids) |-> its(cids[k])])
        counted == _score_findings(domain_items)
    IN [domain |-> domain,
        sscf_controls |-> cids,
        findings_count |-> Len(domain_items),
        pass |-> counted[1],
        partial |-> counted[2],
        fail |-> counted[3],
        not_applicable |-> counted[4],
        score |-> counted[5],
        status |-> _domain_status(counted[5], th),
        controls |-> [k \in 1..Len(cids) |->
                         ControlDetail(cids[k], sscf_index[cids[k]], its(cids[k]))]]

\* variant: the benchmark id carries the time of the run
BenchmarkId_stamped(backlog_, now) ==
    <<"sscf-benchmark-", Field(backlog_, "assessment_id", "unknown"), now>>

\* f"sscf-benchmark-{backlog.get('assessment_id', 'unknown')}"
BenchmarkId(backlog_, now) ==
    <<"sscf-benchmark-", Field(backlog_, "assessment_id", "unknown")>>

\* variant: only the domains that received an item are reported
ReportedDomains_nonEmptyOnly(mapped_items, sscf_index) ==
    {sscf_index[c].domain : c \in {x \in DOMAIN sscf_index :
                                       Appended(mapped_items, sscf_index, x) # <<>>}}

\* the keys of domain_controls: the domains of the controls of the index
ReportedDomains(mapped_items, sscf_index) ==
    {sscf_index[c].domain : c \in DOMAIN sscf_index}

\* run_benchmark(backlog, sscf_index, threshold), now being the time
\* datetime.now(UTC) returns; defined when every control of the index has a
\* domain
run_benchmark(backlog_, sscf_index, th, now) ==
    LET mapped_items == backlog_.mapped_items
        names == Sorted(ReportedDomains(mapped_items, sscf_index))
        domain_results == [k \in 1..Len(names) |->
                              DomainResult(names[k], mapped_items, sscf_index, th)]
        cids == Sorted(DOMAIN sscf_index)
        all_items == Flatten([k \in 1..Len(cids) |->
                                 Appended(mapped_items, sscf_index, cids[k])])
        overall_score == _score_findings(all_items)[5]
        Banded(st) == Cardinality({k \in 1..Len(domain_results) :
                                      domain_results[k].status = st})
    IN [benchmark_id |-> BenchmarkId(backlog_, now),
        generated_at_utc |-> now,
        source_assessment_id |-> Field(backlog_, "assessment_id", ""),
        framework |-> "CSA_SSCF",
        threshold |-> th,
        overall_score |-> overall_score,
        overall_status |-> _domain_status(overall_score, th),
        domains |-> domain_results,
        summary |-> [total_domains |-> Len(domain_results),
                     domains_green |-> Banded("green"),
                     domains_amber |-> Banded("amber"),
                     domains_red |-> Banded("red"),
                     unmatched_findings |-> Len(Unmatched(mapped_items, sscf_index))]]

\* ctrl["domain"] raises KeyError for a control of the index without one
IndexRaises(sscf_index) == \E c \in DOMAIN sscf_index : sscf_index[c].domain = NoKey

(***************************************************************************)
(* Inputs of the benchmark: backlogs whose items name controls of one      *)
(* domain, of several domains, the same control twice, controls that are   *)
(* not in the index, or none; indexes out of order, with a repeated id,    *)
(* with a control without id, and one with a control without domain.       *)
(***************************************************************************)
\* mapped items in a generated backlog
MaxMapped == 3

BacklogItem(sbs_id, legacy_id, st, ids) ==
    [sbs_control_id |-> sbs_id, legacy_control_id |-> legacy_id, status |-> st,
     sscf_control_ids |-> ids]

ItemPool ==
    { BacklogItem("SBS-AUTH-001", "SBS-AUTH-001", "fail", <<"SSCF-IAM-001", "SSCF-LOG-001">>),
      BacklogItem("SBS-ACS-001", "LEG-1", "partial", <<"SSCF-IAM-002", "SSCF-IAM-001">>),
      BacklogItem("SBS-DATA-001", "SBS-DATA-001", "pass", <<"SSCF-DSP-001">>),
      BacklogItem("SBS-INT-001", "SBS-INT-001", "not_applicable", <<"SSCF-IAM-001">>),
      BacklogItem("SBS-OLD-999", "LEG-2", "fail", <<"SSCF-XXX-999">>),
      BacklogItem(NoKey, "LEG-9", "pass", <<"SSCF-LOG-001", "SSCF-LOG-001">>),
      BacklogItem("SBS-DEP-001", NoKey, NoKey, <<>>) }

Backlogs ==
    {[assessment_id |-> a, mapped_items |-> q] :
        a \in {"sfdc-assess-1"}, q \in SeqsUpTo(ItemPool, MaxMapped)}
    \cup {[assessment_id |-> NoKey, mapped_items |-> <<>>]}

IndexControl(id, domain, title) ==
    [sscf_control_id |-> id, domain |-> domain, title |-> title, owner_team |-> NoKey]

Indexes ==
    { <<>>,
      <<IndexControl("SSCF-LOG-001", "LOG", "Audit logging"),
        IndexControl("SSCF-IAM-002", "IAM", "MFA"),
        IndexControl("SSCF-CON-001", "CON", "Baseline"),
        IndexControl("SSCF-IAM-001", "IAM", "SSO"),
        IndexControl("SSCF-DSP-001", "DSP", NoKey)>>,
      <<IndexControl("SSCF-IAM-001", "LOG", "SSO (moved)"),
        IndexControl(NoKey, "CON", "No id"),
        IndexControl("SSCF-IAM-001", "IAM", "SSO"),
        IndexControl("SSCF-LOG-001", "LOG", "Audit logging")>>,
      <<IndexControl("SSCF-IAM-001", NoKey, "No domain")>> }

\* --threshold, a click.FloatRange(0.0, 1.0), in 1/10000
Thresholds == {3000, 8000, 10000}

BenchInit ==
    /\ LoopIdle
    /\ AssessIdle
    /\ MapIdle
    /\ ScoreIdle
    /\ bpc = "ready"
    /\ scorer_backlog \in Backlogs
    /\ index_controls \in Indexes
    /\ threshold \in Thresholds
    /\ report = EmptyDict
    /\ prev_report = EmptyDict
    /\ clock = <<1>>

\* benchmark: report = run_benchmark(backlog, sscf_index, threshold)
BenchOk ==
    /\ bpc = "ready"
    /\ ~IndexRaises(_load_sscf_index(index_controls))
    /\ report' = run_benchmark(scorer_backlog, _load_sscf_index(index_controls), threshold,
                               Head(clock))
    /\ clock' = Tail(clock)
    /\ bpc' = "returned"
    /\ UNCHANGED <<scorer_backlog, index_controls, threshold, prev_report>>
    /\ UNCHANGED <<loopvars, assessvars, mapvars, scorevars>>

\* benchmark: run_benchmark raises KeyError
BenchRaises ==
    /\ bpc = "ready"
    /\ IndexRaises(_load_sscf_index(index_controls))
    /\ bpc' = "raised"
    /\ UNCHANGED <<scorer_backlog, index_controls, threshold, report, prev_report, clock>>
    /\ UNCHANGED <<loopvars, assessvars, mapvars, scorevars>>

\* the benchmark is run again on the same backlog, index and threshold
BenchAgain ==
    /\ bpc = "returned"
    /\ prev_report' = report
    /\ report' = run_benchmark(scorer_backlog, _load_sscf_index(index_controls), threshold,
                               Head(clock))
    /\ clock' = Tail(clock)
    /\ bpc' = "rerun"
    /\ UNCHANGED <<scorer_backlog, index_controls, threshold>>
    /\ UNCHANGED <<loopvars, assessvars, mapvars, scorevars>>

BenchNext == BenchOk \/ BenchRaises

SpecBench == BenchInit /\ [][BenchNext]_vars

(***************************************************************************)
(* The mapper and the benchmark run twice each on the same inputs, the     *)
(* benchmark on the backlog the mapper wrote, as harness/tools.py chains   *)
(* them: with the repository's index path and the default threshold.       *)
(***************************************************************************)
\* entries in a findings list of the repeated runs
MaxTwice == 2

\* the mapper is run again on the same gap analysis, catalog, crosswalk and
\* SSCF configuration
MapAgain ==
    /\ mpc = "returned"
    /\ prev_backlog_payload' = backlog_payload
    /\ backlog_payload' =
           Written(main(gap_findings.entries, controls_payload, mappings, sscf_map_cfg),
                   Head(clock))
    /\ clock' = Tail(clock)
    /\ mpc' = "rerun"
    /\ UNCHANGED <<gap_findings, controls_payload, mappings, sscf_map_cfg>>
    /\ UNCHANGED <<loopvars, assessvars, scorevars, benchvars>>

\* benchmark: _load_backlog and _load_sscf_index read the files; --threshold
\* is left at its default 0.80
HandOver ==
    /\ mpc = "rerun"
    /\ bpc = "idle"
    /\ scorer_backlog' = backlog_payload
    /\ index_controls' \in Indexes
    /\ threshold' = 8000
    /\ bpc' = "ready"
    /\ UNCHANGED <<report, prev_report, clock>>
    /\ UNCHANGED <<loopvars, assessvars, mapvars, scorevars>>

TwiceInit ==
    /\ LoopIdle
    /\ AssessIdle
    /\ ScoreIdle
    /\ BenchIdle
    /\ clock = <<1, 2, 3, 4>>
    /\ mpc = "ready"
    /\ gap_findings \in {FindingsList(q) : q \in SeqsUpTo(FindingPool, MaxTwice)} \cup {NotAList}
    /\ \E cs \in MapCatalogs : Len(cs) = 3 /\ controls_payload = cs
    /\ mappings \in Crosswalks
    /\ sscf_map_cfg \in SscfConfigs
    /\ backlog_payload = EmptyDict
    /\ prev_backlog_payload = EmptyDict

TwiceNext == MapOk \/ MapRaises \/ MapAgain \/ HandOver \/ BenchOk \/ BenchRaises \/ BenchAgain

SpecTwice == TwiceInit /\ [][TwiceNext]_vars

(***************************************************************************)
(* Properties of the orchestration loop.                                   *)
(***************************************************************************)
\* the file holds a finding with status=fail and severity=critical
HasCriticalFail(file) ==
    /\ file.kind = "json"
    /\ file.has_findings
    /\ \E i \in 1..Len(file.findings) :
          /\ file.findings[i].status = "fail"
          /\ file.findings[i].severity = "critical"

\* neither the result record nor a memory summary exists
NothingPersisted == loop_result = NoRecord /\ add_calls = <<>> /\ memory = <<>>

C2_BlockedIff ==
    /\ [][pc = "gating" =>
            /\ (pc' = "blocked") <=>
                   (/\ _extract_critical_fails(gap_analysis, files) # <<>>
                    /\ ~dry_run
                    /\ ~approve_critical)
            /\ pc' = "blocked" => (exit_code' = 2 /\ NothingPersisted')
            /\ pc' # "blocked" => (pc' = "persist" /\ exit_code' = NoExit)]_vars
    /\ [][pc' = "blocked" => pc \in {"gating", "blocked"}]_vars
    /\ [][pc = "persist" => pc' = "returned"]_vars
    /\ [][pc = "returned" => (pc' = "done" /\ exit_code' = 0 /\ loop_result'.written)]_vars
    /\ [](pc \in {"persist", "returned"} => ENABLED Next)
    /\ [](pc = "blocked" => (exit_code = 2 /\ NothingPersisted /\ ~ENABLED Next))

\* a run blocked on two critical/fail findings
C2_Witness ==
    /\ pc = "blocked"
    /\ exit_code = 2
    /\ critical_fails = <<"SBS-AUTH-001", "SBS-OAUTH-001">>
    /\ loop_result = NoRecord

\* C3 as stated: once the loop has run to its end with a tracked gap analysis
\* that holds a critical/fail finding and without the approval flag, the run
\* has exited with the blocking code and has written no result record.
C3_Original ==
    (/\ pc \in {"done", "blocked"}
     /\ gap_analysis # NoPath
     /\ HasCriticalFail(files[gap_analysis])
     /\ ~approve_critical)
        => (pc = "blocked" /\ exit_code = 2 /\ loop_result = NoRecord)

\* C3: with a tracked gap analysis that holds a critical/fail finding and neither
\* the approval flag nor the dry-run flag set, the run writes no result record,
\* never passes the gate, and ends only blocked with exit code 2 or aborted by
\* a failure.
C3_Amended ==
    (/\ gap_analysis # NoPath
     /\ HasCriticalFail(files[gap_analysis])
     /\ ~approve_critical
     /\ ~dry_run)
        => /\ loop_result = NoRecord
           /\ pc \notin {"persist", "returned", "done"}
           /\ pc = "blocked" => exit_code = 2
           /\ pc \in Terminal => pc \in {"blocked", "aborted"}

\* a run blocked at its second turn on the default gap analysis
C3_Witness ==
    /\ pc = "blocked"
    /\ exit_code = 2
    /\ turns = 2
    /\ gap_analysis = GapDefault
    /\ HasCriticalFail(files[GapDefault])
    /\ ~approve_critical
    /\ ~dry_run
    /\ loop_result = NoRecord

\* the critical/fail findings of the tracked gap analysis, counted on the file
NumCriticalFail ==
    IF gap_analysis # NoPath /\ HasCriticalFail(files[gap_analysis])
    THEN Cardinality({i \in 1..Len(files[gap_analysis].findings) :
                         /\ files[gap_analysis].findings[i].status = "fail"
                         /\ files[gap_analysis].findings[i].severity = "critical"})
    ELSE 0

\* the overall score of the tracked score report, in 1/10000
ReportedScore ==
    IF sscf_report # NoPath /\ files[sscf_report].kind = "json" /\ files[sscf_report].has_score
    THEN files[sscf_report].overall_score
    ELSE 0

\* the summary s is keyed by the org and carries the score and the count
CarriesScoreAndCount(s) ==
    /\ s.user_id = org
    /\ s.critical_fails = NumCriticalFail
    /\ s.meta_score = ReportedScore
    /\ 10 * s.overall_score - ReportedScore \in -5..5

\* C4 as stated: a run that completed has exit code 0 and has saved exactly one
\* memory summary, keyed by the org, with the score and the critical-fail count.
C4_Original ==
    pc = "done" =>
        /\ exit_code = 0
        /\ Len(memory) = 1
        /\ CarriesScoreAndCount(memory[1])

\* C4: a run that completed has exit code 0 and, when the memory client was
\* built at start-up, has called the save exactly once with a summary keyed by
\* the org that carries the score and the critical-fail count, which the store
\* holds unless its add call failed; without a memory client nothing is saved.
\* The save is called only after the gate has been passed, and a blocked or
\* aborted run has saved nothing.
C4_Amended ==
    /\ pc = "done" =>
          /\ exit_code = 0
          /\ Len(add_calls) = (IF mem_client THEN 1 ELSE 0)
          /\ memory \in {<<>>, add_calls}
    /\ \A i \in 1..Len(add_calls) : CarriesScoreAndCount(add_calls[i])
    /\ Len(memory) <= Len(add_calls)
    /\ add_calls # <<>> =>
          /\ pc \in {"returned", "done"}
          /\ ~(critical_fails # <<>> /\ ~dry_run /\ ~approve_critical)
    /\ pc \in {"blocked", "aborted"} => (add_calls = <<>> /\ memory = <<>>)

\* an approved run completed past two critical/fail findings with its summary
\* stored
C4_Witness ==
    /\ pc = "done"
    /\ exit_code = 0
    /\ approve_critical
    /\ ~dry_run
    /\ Len(memory) = 1
    /\ memory[1].user_id = org
    /\ memory[1].critical_fails = 2
    /\ memory[1].overall_score = 340
    /\ memory[1].meta_score = 3400

\* the last dispatch call of the turn
LastDispatch == dispatched[Len(dispatched)]

\* C5: right after a failed dispatch of sfdc_connect_collect or
\* oscal_assess_assess the run is aborted with the error at top level (exit
\* code 1): the failed call has no tool_result, nothing can follow (no later
\* block, no model turn, no gate), the gate has left no trace, and neither a
\* memory summary nor a result record exists.
C5_CriticalFailureHalts ==
    (/\ dispatched # <<>>
     /\ ~LastDispatch.ok
     /\ LastDispatch.name \in {"sfdc_connect_collect", "oscal_assess_assess"})
        => /\ pc = "aborted"
           /\ exit_code = 1
           /\ ~ENABLED Next
           /\ Len(tool_results) = Len(dispatched) - 1
           /\ critical_fails = <<>>
           /\ score = 0
           /\ NothingPersisted

\* the assessor fails as the first of two tool blocks: the second is never
\* dispatched
C5_Witness ==
    /\ pc = "aborted"
    /\ exit_code = 1
    /\ Len(content) = 2
    /\ IsToolUse(content[2])
    /\ Len(dispatched) = 1
    /\ dispatched[1].name = "oscal_assess_assess"
    /\ ~dispatched[1].ok
    /\ idx = 1

\* dispatch call i of the turn failed on a downstream tool
DownstreamFailure(i) ==
    /\ ~dispatched[i].ok
    /\ dispatched[i].name \in {"oscal_gap_map", "sscf_benchmark_benchmark"}

\* q[i] is the tool_result of dispatch call i and holds the structured error
\* payload naming the tool
ErrorFedBack(q, i) ==
    /\ i <= Len(q)
    /\ q[i].type = "tool_result"
    /\ q[i].tool_use_id = dispatched[i].id
    /\ q[i].content.status = "error"
    /\ q[i].content.tool = dispatched[i].name

\* C6 as stated: after a failed dispatch of a downstream tool in the current
\* turn, and unless a critical-path failure aborted the run, the loop is still
\* working on the turn or is awaiting the next model turn.
C6_Original ==
    \A i \in 1..Len(dispatched) :
        (DownstreamFailure(i) /\ pc # "aborted")
            => pc \in {"dispatching_tools", "awaiting_model_turn"}

\* C6: a failed dispatch of a downstream tool does not abort the run: the
\* structured error payload is the tool_result of that call, the loop goes on
\* with the turn, and once the turn is over the payload is in the input of the
\* next model turn, which can be requested, unless this was the last turn the
\* ceiling allows, in which case the loop proceeds to the gate.  Only a failed
\* critical-path dispatch or model call aborts the run after it.
C6_Amended ==
    \A i \in 1..Len(dispatched) :
        DownstreamFailure(i) =>
            /\ ErrorFedBack(tool_results, i)
            /\ pc = "aborted" =>
                  \/ LastDispatch.name \in _CRITICAL_TOOLS /\ ~LastDispatch.ok
                  \/ Len(tool_results) = Len(dispatched) /\ idx > Len(content)
            /\ pc = "awaiting_model_turn" =>
                  /\ ErrorFedBack(next_input, i)
                  /\ turns < _MAX_TURNS
                  /\ ENABLED ModelTurn
            /\ pc \notin {"dispatching_tools", "awaiting_model_turn", "aborted"} =>
                  /\ turns = _MAX_TURNS
                  /\ summary = MaxTurnsMarker

\* the mapper failed and the scorer ran in one turn, and the next model turn is
\* awaited with both results
C6_Witness ==
    /\ pc = "awaiting_model_turn"
    /\ Len(dispatched) = 2
    /\ dispatched[1].name = "oscal_gap_map"
    /\ ~dispatched[1].ok
    /\ dispatched[2].ok
    /\ Len(next_input) = 2
    /\ next_input[1].content = [status |-> "error", tool |-> "oscal_gap_map",
                                output_file |-> NoPath, has_output |-> FALSE]
    /\ next_input[2].content.status = "ok"

\* steps left to a run, at most: every step of the loop lowers it
Measure ==
    CASE pc = "start" -> 100 * (_MAX_TURNS + 2)
      [] pc = "awaiting_model_turn" -> 100 * (_MAX_TURNS + 1 - turns) + 10
      [] pc = "dispatching_tools" ->
             100 * (_MAX_TURNS + 1 - turns) + 10 + (Len(content) + 2 - idx)
      [] pc = "gating" -> 5
      [] pc = "persist" -> 4
      [] pc = "returned" -> 3
      [] pc = "blocked" -> 2
      [] pc = "done" -> 1
      [] OTHER -> 0

\* C7: at most 20 model turns are requested, one per step of the loop in
\* awaiting_model_turn, and none after the 20th; when the 20th turn requested
\* tools and its blocks are processed, the summary becomes
\* '[max_turns=20 exceeded]' and the loop proceeds to the gate; every step
\* lowers a bounded measure, a run that has not ended can take a step, and
\* every run ends done, blocked or aborted.
C7_TurnCeiling ==
    /\ [](turns \in 0..20)
    /\ [](pc = "awaiting_model_turn" => turns < 20)
    /\ [][turns' # turns => (turns' = turns + 1 /\ pc = "awaiting_model_turn")]_vars
    /\ [][(pc = "dispatching_tools" /\ turns = 20 /\ pc' \notin {"dispatching_tools", "aborted"})
              => (pc' = "gating" /\ summary' = "[max_turns=20 exceeded]")]_vars
    /\ [][(pc = "dispatching_tools" /\ turns < 20) => pc' # "gating"]_vars
    /\ [][Measure' < Measure]_vars
    /\ [](Measure >= 0)
    /\ [](pc \notin Terminal => ENABLED Next)
    /\ [](pc \in Terminal => ~ENABLED Next)
    /\ <>(pc \in Terminal)

\* the 20th turn requested a tool and the loop went to the gate with the marker
C7_Witness ==
    /\ pc = "gating"
    /\ turns = 20
    /\ summary = "[max_turns=20 exceeded]"
    /\ Len(dispatched) = 1

\* the ids of the tool_use blocks among the first n blocks, in order
ToolUseIds(blocks, n) ==
    LET sel == SelectSeq(SubSeq(blocks, 1, Min(n, Len(blocks))), IsToolUse)
    IN [i \in 1..Len(sel) |-> sel[i].id]

DispatchedIds == [i \in 1..Len(dispatched) |-> dispatched[i].id]
ResultIds(q) == [i \in 1..Len(q) |-> q[i].tool_use_id]

\* C8: while a turn is worked on, the dispatch calls made so far are exactly the
\* tool_use blocks before the current position, in the order of the response,
\* each with its tool_result; a failing critical-path call is the next block in
\* that order; and when the next model turn is awaited every tool_use block of
\* the response has been dispatched and the input of the next turn is one
\* tool_result per tool_use block, in the same order, with the block's id.
C8_SequentialDispatch ==
    /\ pc = "dispatching_tools" =>
          /\ DispatchedIds = ToolUseIds(content, idx - 1)
          /\ ResultIds(tool_results) = DispatchedIds
    /\ (pc = "aborted" /\ dispatched # <<>>) =>
          /\ DispatchedIds = ToolUseIds(content, idx)
          /\ ResultIds(tool_results) = ToolUseIds(content, idx - 1)
    /\ (pc = "awaiting_model_turn" /\ turns > 0) =>
          /\ DispatchedIds = ToolUseIds(content, Len(content))
          /\ ResultIds(next_input) = DispatchedIds
          /\ \A i \in 1..Len(next_input) : next_input[i].type = "tool_result"
    /\ \A i, j \in 1..Len(dispatched) : i # j => dispatched[i].id # dispatched[j].id

\* two different tools of one response were dispatched and the next turn is
\* awaited with their two results
C8_Witness ==
    /\ pc = "awaiting_model_turn"
    /\ Len(content) = 2
    /\ content[1].name = "sfdc_connect_collect"
    /\ content[2].name = "oscal_assess_assess"
    /\ Len(next_input) = 2
    /\ next_input[1].tool_use_id = content[1].id
    /\ next_input[2].tool_use_id = content[2].id
    /\ next_input[1].tool_use_id # next_input[2].tool_use_id

\* the loop under the scheduling of a sequential process: a step that can be
\* taken is taken
FairSpec == Spec /\ WF_vars(Next)

(***************************************************************************)
(* Properties of the rule engine.                                          *)
(***************************************************************************)
\* C9: for every catalog, every collected input and both modes, the list
\* run_assessment returns has one finding per catalog control, the i-th with
\* the control id of the i-th control (the empty id for a control that has
\* none) and with a status among pass, fail, partial and not_applicable.
C9_OneFindingPerControl ==
    apc = "returned" =>
        /\ Len(findings) = Len(controls)
        /\ \A i \in 1..Len(controls) :
              /\ controls[i].control_id # NoKey =>
                     findings[i].control_id = controls[i].control_id
              /\ controls[i].control_id = NoKey => findings[i].control_id = ""
              /\ findings[i].status \in {"pass", "fail", "partial", "not_applicable"}

\* a live assessment of the catalog of all 45 registered controls whose
\* findings take all four statuses
C9_Witness ==
    /\ apc = "returned"
    /\ ~assess_dry_run
    /\ controls = AllRulesCatalog
    /\ Len(findings) = 45
    /\ \A st \in {"pass", "fail", "partial", "not_applicable"} :
          \E i \in 1..Len(findings) : findings[i].status = st

\* C10 as stated: every finding run_assessment returns has a severity among
\* critical, high, moderate and low, whatever the risk levels of the catalog.
C10_SeverityClosed ==
    apc = "returned" =>
        \A i \in 1..Len(findings) :
            findings[i].severity \in {"critical", "high", "moderate", "low"}

\* the collected input r is what collect writes: an object keyed by scope names
ScopeWrapped(r) == r # None /\ DOMAIN r # {} /\ DOMAIN r \subseteq ScopeNames

\* the collected input r holds no data of the scope: it is None or empty, or
\* it is keyed by scope names and the scope is not among them
ScopeAbsent(r, scope_name) ==
    \/ r = None
    \/ DOMAIN r = {}
    \/ ScopeWrapped(r) /\ scope_name \notin DOMAIN r

\* C11 as stated: in live mode, a control whose rule reads a scope that the
\* collected input does not hold (the input is None or empty, or is keyed by
\* other scopes only) gets a finding with status not_applicable.
C11_AbsentScopeNotApplicable ==
    (apc = "returned" /\ ~assess_dry_run) =>
        \A i \in 1..Len(controls) :
            LET cid == ControlId(controls[i])
            IN (/\ HasRule(cid)
                /\ RuleScope(cid) # NoKey
                /\ ScopeAbsent(raw, RuleScope(cid)))
                   => findings[i].status = "not_applicable"

\* C12 as stated: a control registered with a not-collectable rule gets a
\* finding with status not_applicable in every call of run_assessment, whatever
\* the collected input and in live and dry-run mode alike.
C12_NotCollectableAlwaysNA ==
    apc = "returned" =>
        \A i \in 1..Len(controls) :
            ControlId(controls[i]) \in NotCollectable
                => findings[i].status = "not_applicable"

\* C13: in dry-run mode the findings are the same whatever the collected
\* input; a control with a rule and an entry in the override table gets the
\* status, observed value and remediation of that entry, and a control with a
\* rule and no entry gets the finding of its rule on the empty input, whose
\* status is not_applicable.
C13_DryRunIgnoresInput ==
    (apc = "returned" /\ assess_dry_run) =>
        /\ \A j \in 1..Len(RawInputs) :
               run_assessment(RawInputs[j], controls, TRUE) = findings
        /\ \A i \in 1..Len(controls) :
               LET cid == ControlId(controls[i])
               IN HasRule(cid) =>
                    IF cid \in DOMAIN _DRY_RUN_OVERRIDES
                    THEN /\ findings[i].status = _DRY_RUN_OVERRIDES[cid].status
                         /\ findings[i].observed_value = _DRY_RUN_OVERRIDES[cid].observed
                         /\ findings[i].remediation = _DRY_RUN_OVERRIDES[cid].remediation
                    ELSE /\ findings[i] = RULES(cid, EmptyDict)
                         /\ findings[i].status = "not_applicable"

\* a dry run over the collected data of a strong org: the control that would
\* pass live gets the override's fail, the one without an override is
\* not_applicable
C13_Witness ==
    /\ apc = "returned"
    /\ assess_dry_run
    /\ raw = RawInputs[5]
    /\ controls = <<Control("SBS-AUTH-001", "Critical"), Control("SBS-CODE-001", "Moderate")>>
    /\ _rule_auth_001(raw).status = "pass"
    /\ findings[1].status = "fail"
    /\ findings[1].observed_value = "No SSO providers configured [dry-run]"
    /\ findings[1].remediation = "Configure org-wide SSO."
    /\ findings[2].status = "not_applicable"

\* the number of findings of fs with the status st
CountStatus(fs, st) == Cardinality({i \in 1..Len(fs) : fs[i].status = st})

\* C14: a dry-run assessment of a catalog whose control ids are the 45 keys
\* of the rule registry returns exactly 45 findings, at least 3 of them
\* with status fail and at least 5 with status partial.
C14_DryRunFullCatalog ==
    (/\ apc = "returned"
     /\ assess_dry_run
     /\ [i \in 1..Len(controls) |-> ControlId(controls[i])] = RuleIds)
        => /\ Len(findings) = 45
           /\ CountStatus(findings, "fail") >= 3
           /\ CountStatus(findings, "partial") >= 5

\* the dry run of the full catalog: 10 fail, 21 partial, 1 pass and 13
\* not_applicable findings
C14_Witness ==
    /\ apc = "returned"
    /\ assess_dry_run
    /\ controls = AllRulesCatalog
    /\ Len(findings) = 45
    /\ CountStatus(findings, "fail") = 10
    /\ CountStatus(findings, "partial") = 21
    /\ CountStatus(findings, "pass") = 1
    /\ CountStatus(findings, "not_applicable") = 13

\* the collected input r given in the other shape: under the scope's name
Wrapped(scope_name, r) == scope_name :> r

\* C26: in live mode a rule that reads a scope gives, for a collected input
\* that is a non-empty scope payload given directly, the finding it gives for
\* the same payload wrapped under the scope's name.
C26_BothShapesAgree ==
    (apc = "returned" /\ ~assess_dry_run /\ raw # None /\ DOMAIN raw # {}
     /\ ~ScopeWrapped(raw)) =>
        \A i \in 1..Len(controls) :
            LET cid == ControlId(controls[i])
            IN (HasRule(cid) /\ RuleScope(cid) # NoKey)
                   => findings[i]
                          = ControlFinding(Wrapped(RuleScope(cid), raw), controls[i], FALSE)

\* the auth payload given directly is assessed by SBS-AUTH-001 on its
\* content, and the wrapped payload gets the same finding
C26_Witness ==
    /\ apc = "returned"
    /\ ~assess_dry_run
    /\ raw = MixedAuth
    /\ \E i \in 1..Len(controls) :
           /\ ControlId(controls[i]) = "SBS-AUTH-001"
           /\ findings[i].status \in {"pass", "partial", "fail"}
           /\ findings[i] = ControlFinding(Wrapped("auth", raw), controls[i], FALSE)

\* the records of the health check in a collected input that holds the
\* secconf scope, given wrapped or directly
HealthRecords(r) ==
    LET secconf == IF "secconf" \in DOMAIN r THEN r["secconf"] ELSE r
    IN IF "health_check" \in DOMAIN secconf /\ "records" \in DOMAIN secconf["health_check"]
       THEN secconf["health_check"]["records"]
       ELSE <<>>

\* C30: in live mode, on a collected input with a non-empty secconf scope,
\* the rules of SBS-SECCONF-001 and SBS-SECCONF-002 give fail for a Score of
\* the first health-check record below 50, partial for a Score from 50 up to
\* but not including 80, pass for a Score of 80 or more, and partial when
\* there is no health-check record; the severity is high, as it is when the
\* scope is not collected.
C30_HealthCheckBands ==
    (apc = "returned" /\ ~assess_dry_run) =>
        \A i \in 1..Len(controls) :
            ControlId(controls[i]) \in {"SBS-SECCONF-001", "SBS-SECCONF-002"} =>
                /\ findings[i].severity = "high"
                /\ (raw # None /\ DOMAIN raw # {}
                    /\ ("secconf" \in DOMAIN raw => DOMAIN raw["secconf"] # {})
                    /\ ("secconf" \in DOMAIN raw \/ ~ScopeWrapped(raw))) =>
                       LET records == HealthRecords(raw)
                       IN IF records = <<>> THEN findings[i].status = "partial"
                          ELSE /\ records[1].Score < 50 => findings[i].status = "fail"
                               /\ (records[1].Score >= 50 /\ records[1].Score < 80)
                                      => findings[i].status = "partial"
                               /\ records[1].Score >= 80 => findings[i].status = "pass"

\* a Score of exactly 80 passes both health-check rules with severity high
C30_Witness ==
    /\ apc = "returned"
    /\ ~assess_dry_run
    /\ raw # None
    /\ "secconf" \in DOMAIN raw
    /\ HealthRecords(raw) # <<>>
    /\ HealthRecords(raw)[1].Score = 80
    /\ \E i \in 1..Len(controls) :
           /\ ControlId(controls[i]) = "SBS-SECCONF-001"
           /\ findings[i].status = "pass"
           /\ findings[i].severity = "high"
    /\ \E i \in 1..Len(controls) :
           /\ ControlId(controls[i]) = "SBS-SECCONF-002"
           /\ findings[i].status = "pass"
           /\ findings[i].severity = "high"

(***************************************************************************)
(* Properties of the mapper.                                               *)
(***************************************************************************)
\* the stripped control ids of the findings of the model
LegacyIds == {"SBS-AUTH-001", "SBS-ACS-001", "SBS-OLD-999", "LEG-1", "LEG-2", "LEG-9", ""}

\* the canonical ids a crosswalk row of the model can point to
TargetIds == CanonicalIds \cup {""}

\* the number of entries of q that satisfy the test given as a set of positions
HowMany(positions) == Cardinality(positions)

\* the object entries of the gap analysis with the stripped control id x
FindingsWithId(x) ==
    HowMany({i \in 1..Len(gap_findings.entries) :
                /\ IsDict(gap_findings.entries[i])
                /\ StrippedField(gap_findings.entries[i], "control_id") = x})

MappedWithId(x) ==
    HowMany({i \in 1..Len(backlog_payload.mapped_items) :
                backlog_payload.mapped_items[i].legacy_control_id = x})
UnmappedWithId(x) ==
    HowMany({i \in 1..Len(backlog_payload.unmapped_items) :
                backlog_payload.unmapped_items[i].legacy_control_id = x})
InvalidWithId(x) ==
    HowMany({i \in 1..Len(backlog_payload.invalid_mapping_entries) :
                backlog_payload.invalid_mapping_entries[i]
                    \in {InvalidDirect(x)} \cup {InvalidCrosswalk(x, t) : t \in TargetIds}})

\* C15 as stated: the three buckets partition the input findings: the entries
\* of the gap analysis' findings list with a given control id are as many as
\* the entries of the three buckets with that id, and findings_total, the sum
\* of the three bucket counts and the number of entries of the findings list
\* of the gap analysis are the same number.
C15_BucketsPartitionFindings ==
    mpc = "returned" =>
        /\ backlog_payload.summary.mapped_findings = Len(backlog_payload.mapped_items)
        /\ backlog_payload.summary.unmapped_findings = Len(backlog_payload.unmapped_items)
        /\ backlog_payload.summary.invalid_mapping_entries
               = Len(backlog_payload.invalid_mapping_entries)
        /\ backlog_payload.summary.findings_total
               = backlog_payload.summary.mapped_findings
                 + backlog_payload.summary.unmapped_findings
                 + backlog_payload.summary.invalid_mapping_entries
        /\ \A x \in LegacyIds :
               FindingsWithId(x) = MappedWithId(x) + UnmappedWithId(x) + InvalidWithId(x)
        /\ backlog_payload.summary.findings_total = Len(gap_findings.entries)

\* the canonical id of the legacy id x: x itself when it has the prefix, the
\* target of its crosswalk row when it has one, NoKey otherwise
CanonicalOf(x) ==
    IF HasPrefix(x) THEN x
    ELSE IF x \in DOMAIN map_by_legacy(mappings)
    THEN StrippedField(map_by_legacy(mappings)[x], "sbs_control_id")
    ELSE NoKey

CatalogKeys == DOMAIN controls_by_id(controls_payload)

\* C16: every mapped item has a canonical control id that is a key of the
\* catalog, and the findings whose canonical id (their own SBS- id or the
\* target of their crosswalk row) is not a key of the catalog are all in the
\* invalid bucket, none of them in mapped or unmapped.
C16_MappedInCatalog ==
    mpc = "returned" =>
        /\ \A i \in 1..Len(backlog_payload.mapped_items) :
               backlog_payload.mapped_items[i].sbs_control_id \in CatalogKeys
        /\ \A x \in LegacyIds :
               (CanonicalOf(x) # NoKey /\ CanonicalOf(x) \notin CatalogKeys) =>
                   /\ InvalidWithId(x) = FindingsWithId(x)
                   /\ MappedWithId(x) = 0
                   /\ UnmappedWithId(x) = 0

\* a canonical id that is not in the catalog and a legacy id whose crosswalk
\* target is not in the catalog are both invalid entries, next to a mapped item
C16_Witness ==
    /\ mpc = "returned"
    /\ Len(backlog_payload.mapped_items) = 1
    /\ backlog_payload.unmapped_items = <<>>
    /\ backlog_payload.invalid_mapping_entries =
           << "SBS-OLD-999 -> SBS-OLD-999 (SBS control not found in imported catalog)",
              "LEG-2 -> SBS-GONE-001 (not found in imported catalog)" >>

\* the part of a backlog that comes from findings with a canonical id
DirectPart(payload) ==
    LET Direct(item) == HasPrefix(item.legacy_control_id)
        DirectEntry(e) == e \in {InvalidDirect(x) : x \in CanonicalIds}
    IN [mapped_items |-> SelectSeq(payload.mapped_items, Direct),
        unmapped_items |-> SelectSeq(payload.unmapped_items, Direct),
        invalid_mapping_entries |-> SelectSeq(payload.invalid_mapping_entries, DirectEntry)]

\* C17: a finding whose stripped control id has the prefix SBS- is never
\* unmapped; when mapped, it is mapped to its own id with confidence high and
\* the direct-mapping note; it is in the mapped or in the invalid bucket; and
\* what the backlog holds for these findings is the same for every crosswalk.
C17_DirectMapping ==
    mpc = "returned" =>
        /\ \A i \in 1..Len(backlog_payload.mapped_items) :
               LET item == backlog_payload.mapped_items[i]
               IN HasPrefix(item.legacy_control_id) =>
                      /\ item.sbs_control_id = item.legacy_control_id
                      /\ item.mapping_confidence = "high"
                      /\ item.mapping_notes = DirectNotes
        /\ \A x \in CanonicalIds :
               /\ UnmappedWithId(x) = 0
               /\ MappedWithId(x) = IF x \in CatalogKeys THEN FindingsWithId(x) ELSE 0
               /\ InvalidWithId(x) = IF x \in CatalogKeys THEN 0 ELSE FindingsWithId(x)
        /\ \A rows \in Crosswalks :
               DirectPart(main(gap_findings.entries, controls_payload, rows, sscf_map_cfg))
                   = DirectPart(backlog_payload)

\* the crosswalk has a row for SBS-AUTH-001 that points elsewhere, and the
\* finding is mapped to SBS-AUTH-001 itself
C17_Witness ==
    /\ mpc = "returned"
    /\ "SBS-AUTH-001" \in DOMAIN map_by_legacy(mappings)
    /\ Len(backlog_payload.mapped_items) = 1
    /\ backlog_payload.mapped_items[1].legacy_control_id = "SBS-AUTH-001"
    /\ backlog_payload.mapped_items[1].sbs_control_id = "SBS-AUTH-001"
    /\ backlog_payload.mapped_items[1].mapping_confidence = "high"

\* the findings without the prefix and without a crosswalk row, in order
CrosswalkMisses ==
    LET Miss(f) == /\ ~HasPrefix(StrippedField(f, "control_id"))
                   /\ StrippedField(f, "control_id") \notin DOMAIN map_by_legacy(mappings)
    IN SelectSeq(_findings(gap_findings.entries), Miss)

\* C18: the unmapped bucket is, in order, the findings whose id has no prefix
\* and no crosswalk row, each with its id, status and severity; such a finding
\* raises no error (the mapper raises only when the findings value is not a
\* list) and the findings after it are processed: the buckets hold as many
\* entries as there are findings.
C18_CrosswalkMissUnmapped ==
    /\ mpc = "raised" => ~gap_findings.is_list
    /\ mpc = "returned" =>
          /\ backlog_payload.unmapped_items =
                 [i \in 1..Len(CrosswalkMisses) |->
                     [legacy_control_id |-> StrippedField(CrosswalkMisses[i], "control_id"),
                      status |-> Field(CrosswalkMisses[i], "status", ""),
                      severity |-> Field(CrosswalkMisses[i], "severity", "")]]
          /\ Len(backlog_payload.mapped_items) + Len(backlog_payload.unmapped_items)
                 + Len(backlog_payload.invalid_mapping_entries)
                 = Len(_findings(gap_findings.entries))

\* a legacy finding without a row is unmapped and the canonical finding after
\* it is mapped
C18_Witness ==
    /\ mpc = "returned"
    /\ gap_findings.entries = <<F("LEG-9", NoKey, "low"), F("SBS-AUTH-001", "fail", "critical")>>
    /\ backlog_payload.unmapped_items =
           <<[legacy_control_id |-> "LEG-9", status |-> "", severity |-> "low"]>>
    /\ Len(backlog_payload.mapped_items) = 1
    /\ backlog_payload.mapped_items[1].legacy_control_id = "SBS-AUTH-001"

\* C19 as stated: the SSCF associations of a mapped item are the override
\* list of its canonical control id when the override table has an entry for
\* it, otherwise the default list of the control's category, otherwise empty.
C19_OverrideBeforeDefault ==
    mpc = "returned" =>
        \A i \in 1..Len(backlog_payload.mapped_items) :
            LET item == backlog_payload.mapped_items[i]
                sbs == controls_by_id(controls_payload)[item.sbs_control_id]
                category == Field(sbs, "category", "")
            IN item.sscf_mappings =
                  IF item.sbs_control_id \in DOMAIN sscf_map_cfg.control_overrides
                  THEN sscf_map_cfg.control_overrides[item.sbs_control_id]
                  ELSE IF category \in DOMAIN sscf_map_cfg.defaults_by_category
                  THEN sscf_map_cfg.defaults_by_category[category]
                  ELSE <<>>

(***************************************************************************)
(* Properties of the scoring helper.                                       *)
(***************************************************************************)
\* C20: the counts returned for a unit are the numbers of its pass, partial,
\* fail and not_applicable items, and when P + R + F > 0 the score is
\* (P + R/2) / (P + R + F) rounded to 4 decimal places, that is a multiple of
\* 0.0001 at most 0.00005 away from it; the score is that of the unit without
\* its not_applicable items; 2 pass, 1 partial and 1 fail give 0.625.
C20_ScoreFormula ==
    spc = "returned" =>
        LET P == CountStatus(items, "pass")
            R == CountStatus(items, "partial")
            Fl == CountStatus(items, "fail")
            den == 2 * (P + R + Fl)
            num == (2 * P + R) * 10000
            diff == scored[5] * den - num
            Scoreable(item) == item.status # "not_applicable"
        IN /\ scored[1] = P
           /\ scored[2] = R
           /\ scored[3] = Fl
           /\ scored[4] = CountStatus(items, "not_applicable")
           /\ den > 0 => (2 * diff <= den /\ 0 - 2 * diff <= den)
           /\ scored[5] = _score_findings(SelectSeq(items, Scoreable))[5]
           /\ (P = 2 /\ R = 1 /\ Fl = 1) => scored[5] = 6250

\* the unit of 2 pass, 1 partial, 1 fail and 1 not_applicable item scores 0.625
C20_Witness ==
    /\ spc = "returned"
    /\ CountStatus(items, "pass") = 2
    /\ CountStatus(items, "partial") = 1
    /\ CountStatus(items, "fail") = 1
    /\ CountStatus(items, "not_applicable") = 1
    /\ scored = <<2, 1, 1, 1, 6250>>

(***************************************************************************)
(* Properties of the domain scorecard.                                     *)
(***************************************************************************)
\* the benchmark has returned a report
Reported == bpc \in {"returned", "rerun"}

\* the index the benchmark loaded
LoadedIndex == _load_sscf_index(index_controls)

\* the places <<i, j>> where item i of the backlog names, as its j-th framework
\* control id, a control of the index
Placements ==
    UNION {{<<i, j>> : j \in {x \in 1..Len(scorer_backlog.mapped_items[i].sscf_control_ids) :
                                 scorer_backlog.mapped_items[i].sscf_control_ids[x]
                                     \in DOMAIN LoadedIndex}} :
              i \in 1..Len(scorer_backlog.mapped_items)}

\* the control a placement names, and its domain
PlacedControl(pl) == scorer_backlog.mapped_items[pl[1]].sscf_control_ids[pl[2]]
PlacedDomain(pl) == LoadedIndex[PlacedControl(pl)].domain

\* the placements whose item has a status that is scored
ScoreablePlacements ==
    {pl \in Placements :
        scorer_backlog.mapped_items[pl[1]].status \in {"pass", "partial", "fail"}}

\* C21: a reported domain in which no scoreable finding is placed has score 1.0
\* and, the green threshold being at most 1.0, status green; so has the
\* overall score when no scoreable finding is placed in any domain.
C21_EmptyDomainGreen ==
    Reported =>
        /\ \A k \in 1..Len(report.domains) :
               (\A pl \in ScoreablePlacements : PlacedDomain(pl) # report.domains[k].domain)
                   => /\ report.domains[k].score = 10000
                      /\ threshold <= 10000 => report.domains[k].status = "green"
        /\ ScoreablePlacements = {}
               => /\ report.overall_score = 10000
                  /\ threshold <= 10000 => report.overall_status = "green"

\* with a green threshold of 1.0, a domain without findings and a domain with
\* a not_applicable finding only are both green at 1.0, and so is the overall
C21_Witness ==
    /\ Reported
    /\ threshold = 10000
    /\ ScoreablePlacements = {}
    /\ \E k \in 1..Len(report.domains) :
           /\ report.domains[k].findings_count = 0
           /\ report.domains[k].score = 10000
           /\ report.domains[k].status = "green"
    /\ \E k \in 1..Len(report.domains) :
           /\ report.domains[k].findings_count > 0
           /\ report.domains[k].not_applicable = report.domains[k].findings_count
           /\ report.domains[k].score = 10000
           /\ report.domains[k].status = "green"
    /\ report.overall_score = 10000
    /\ report.overall_status = "green"

\* C22: the status of every reported domain and the overall status are the
\* same banding of the score: green when the score is at least the green
\* threshold, otherwise amber when it is at least 0.50, otherwise red.
C22_UniformBanding ==
    Reported =>
        LET Band(sc) == IF sc >= threshold THEN "green"
                        ELSE IF sc >= 5000 THEN "amber" ELSE "red"
        IN /\ \A k \in 1..Len(report.domains) :
                  /\ report.domains[k].status = Band(report.domains[k].score)
                  /\ report.domains[k].status \in {"green", "amber", "red"}
           /\ report.overall_status = Band(report.overall_score)
           /\ report.overall_status \in {"green", "amber", "red"}

\* a report with a red domain, an amber domain, a domain that is green on
\* its findings, and an amber overall status
C22_Witness ==
    /\ Reported
    /\ threshold = 8000
    /\ \A st \in {"green", "amber", "red"} :
           \E k \in 1..Len(report.domains) : report.domains[k].status = st
    /\ \E k \in 1..Len(report.domains) :
           /\ report.domains[k].score = 10000
           /\ report.domains[k].findings_count > 0
    /\ report.overall_score = 6000
    /\ report.overall_status = "amber"

\* the number of placements in a set
HowOften(placements) == Cardinality(placements)

\* the placements in a domain whose item has the status st
PlacedWithStatus(domain, st) ==
    {pl \in Placements :
        /\ PlacedDomain(pl) = domain
        /\ scorer_backlog.mapped_items[pl[1]].status = st}

\* C23: a mapped item is counted once for each time it names a framework
\* control of the index, in the domain of that control and under that
\* control, without deduplication: the findings count and the status counts
\* of a domain, and the findings list of each of its controls, have one entry
\* for each such placement.
C23_CountedPerPlacement ==
    Reported =>
        \A k \in 1..Len(report.domains) :
            LET d == report.domains[k]
            IN /\ d.findings_count
                      = HowOften({pl \in Placements : PlacedDomain(pl) = d.domain})
               /\ d.pass = HowOften(PlacedWithStatus(d.domain, "pass"))
               /\ d.partial = HowOften(PlacedWithStatus(d.domain, "partial"))
               /\ d.fail = HowOften(PlacedWithStatus(d.domain, "fail"))
               /\ d.not_applicable = HowOften(PlacedWithStatus(d.domain, "not_applicable"))
               /\ \A c \in 1..Len(d.controls) :
                      Len(d.controls[c].findings)
                          = HowOften({pl \in Placements :
                                         PlacedControl(pl) = d.controls[c].sscf_control_id})

\* a backlog of two items, one naming controls of two domains and one naming
\* two controls of the same domain: the first is counted in both domains, the
\* second twice in its domain
C23_Witness ==
    /\ Reported
    /\ Len(scorer_backlog.mapped_items) = 2
    /\ scorer_backlog.mapped_items[1].sscf_control_ids = <<"SSCF-IAM-001", "SSCF-LOG-001">>
    /\ scorer_backlog.mapped_items[2].sscf_control_ids = <<"SSCF-IAM-002", "SSCF-IAM-001">>
    /\ \E k \in 1..Len(report.domains) :
           /\ report.domains[k].domain = "IAM"
           /\ report.domains[k].findings_count = 3
           /\ report.domains[k].fail = 1
           /\ report.domains[k].partial = 2
    /\ \E k \in 1..Len(report.domains) :
           /\ report.domains[k].domain = "LOG"
           /\ report.domains[k].findings_count = 1
           /\ report.domains[k].fail = 1

\* the statuses of the findings placed under a framework control
StatusesUnder(sscf_cid) ==
    {scorer_backlog.mapped_items[pl[1]].status :
        pl \in {x \in Placements : PlacedControl(x) = sscf_cid}}

\* C24: the worst status of a framework control of a domain is fail if a
\* finding placed under it has status fail, else partial if one is partial,
\* else pass if one is pass, else not_applicable, which it also is when no
\* finding is placed under it.
C24_WorstStatus ==
    Reported =>
        \A k \in 1..Len(report.domains) :
            \A c \in 1..Len(report.domains[k].controls) :
                LET ctrl == report.domains[k].controls[c]
                    under == StatusesUnder(ctrl.sscf_control_id)
                IN /\ "fail" \in under => ctrl.worst_status = "fail"
                   /\ ("fail" \notin under /\ "partial" \in under)
                          => ctrl.worst_status = "partial"
                   /\ ("fail" \notin under /\ "partial" \notin under /\ "pass" \in under)
                          => ctrl.worst_status = "pass"
                   /\ under \cap {"fail", "partial", "pass"} = {}
                          => ctrl.worst_status = "not_applicable"

\* one report shows a control with a fail and a partial finding as fail, a control with a partial finding as partial, a control with a
\* pass finding as pass and a control without findings as not_applicable
C24_Witness ==
    /\ Reported
    /\ \E k \in 1..Len(report.domains) :
           \E c \in 1..Len(report.domains[k].controls) :
               /\ StatusesUnder(report.domains[k].controls[c].sscf_control_id)
                      = {"fail", "partial"}
               /\ report.domains[k].controls[c].worst_status = "fail"
    /\ \E k \in 1..Len(report.domains) :
           \E c \in 1..Len(report.domains[k].controls) :
               /\ StatusesUnder(report.domains[k].controls[c].sscf_control_id) = {"partial"}
               /\ report.domains[k].controls[c].worst_status = "partial"
    /\ \E k \in 1..Len(report.domains) :
           \E c \in 1..Len(report.domains[k].controls) :
               /\ StatusesUnder(report.domains[k].controls[c].sscf_control_id) = {"pass"}
               /\ report.domains[k].controls[c].worst_status = "pass"
    /\ \E k \in 1..Len(report.domains) :
           \E c \in 1..Len(report.domains[k].controls) :
               /\ report.domains[k].controls[c].findings = <<>>
               /\ report.domains[k].controls[c].worst_status = "not_applicable"

\* the position of a name in the ascending order of names
Rank(name) == CHOOSE i \in 1..Len(Ascending) : Ascending[i] = name

\* the items of the backlog that name no control of the index
NowherePlaced ==
    {i \in 1..Len(scorer_backlog.mapped_items) : \A pl \in Placements : pl[1] # i}

\* the backlog without the items that name no control of the index
PlacedOnly ==
    LET Somewhere(item) == \E j \in 1..Len(item.sscf_control_ids) :
                               item.sscf_control_ids[j] \in DOMAIN LoadedIndex
    IN [scorer_backlog EXCEPT !.mapped_items = SelectSeq(@, Somewhere)]

\* C29: every domain of a control of the index is reported exactly once, in
\* ascending order of the domain names, whether or not a finding is placed in
\* it, and no other domain is; total_domains is the number of reported
\* domains and the sum of the green, amber and red counts; the items that
\* name no control of the index are counted in unmatched_findings, and the
\* domains and the overall score and status are those of the backlog without
\* them.
C29_DomainsReported ==
    Reported =>
        /\ \A c \in DOMAIN LoadedIndex :
               Cardinality({k \in 1..Len(report.domains) :
                               report.domains[k].domain = LoadedIndex[c].domain}) = 1
        /\ \A k \in 1..Len(report.domains) :
               \E c \in DOMAIN LoadedIndex : LoadedIndex[c].domain = report.domains[k].domain
        /\ \A k \in 1..Len(report.domains) : \A l \in 1..Len(report.domains) :
               k < l => Rank(report.domains[k].domain) < Rank(report.domains[l].domain)
        /\ report.summary.total_domains = Len(report.domains)
        /\ report.summary.domains_green + report.summary.domains_amber
               + report.summary.domains_red = report.summary.total_domains
        /\ report.summary.unmatched_findings = Cardinality(NowherePlaced)
        /\ LET without == run_benchmark(PlacedOnly, LoadedIndex, threshold,
                                        report.generated_at_utc)
           IN /\ report.domains = without.domains
              /\ report.overall_score = without.overall_score
              /\ report.overall_status = without.overall_status
              /\ without.summary.unmatched_findings = 0

\* a report of four domains in ascending order, one of them without findings,
\* for a backlog with a placed item and an item that names no control of the
\* index
C29_Witness ==
    /\ Reported
    /\ Len(report.domains) = 4
    /\ [k \in 1..4 |-> report.domains[k].domain] = <<"CON", "DSP", "IAM", "LOG">>
    /\ report.domains[1].findings_count = 0
    /\ report.domains[3].findings_count > 0
    /\ report.summary.total_domains = 4
    /\ report.summary.unmatched_findings = 1
    /\ Len(scorer_backlog.mapped_items) = 2

(***************************************************************************)
(* Properties of repeated runs.                                            *)
(***************************************************************************)
\* an output without its generated-at timestamp
Timeless(output) == [k \in DOMAIN output \ {"generated_at_utc"} |-> output[k]]

Tracked == <<gap_analysis, backlog, sscf_report>>

\* the step appends the result of a dispatch that returned normally and whose
\* payload carries an output_file
SuccessWithOutput ==
    /\ pc = "dispatching_tools"
    /\ idx <= Len(content)
    /\ IsToolUse(content[idx])
    /\ Len(tool_results') = Len(tool_results) + 1
    /\ LET result == tool_results'[Len(tool_results')].content
       IN /\ result.status = "ok"
          /\ result.has_output
          /\ result.output_file # NoPath

\* C27: the tracked paths change only in a step that records a successful
\* result carrying an output_file; such a result of oscal_assess_assess sets
\* gap_analysis, of oscal_gap_map sets backlog and of sscf_benchmark_benchmark
\* sets sscf_report, each to the path of that result, and leaves the other paths
\* alone; a result of sfdc_connect_collect, an error payload and a result
\* without output_file leave all three unchanged; so at the gate gap_analysis is
\* the output of the most recent successful assessment, or unset if there was
\* none.
C27_TrackedPaths ==
    /\ [][/\ Tracked' # Tracked => SuccessWithOutput
          /\ SuccessWithOutput =>
                LET name == content[idx].name
                    out_file == tool_results'[Len(tool_results')].content.output_file
                IN /\ gap_analysis' = IF name = "oscal_assess_assess"
                                      THEN out_file ELSE gap_analysis
                   /\ backlog' = IF name = "oscal_gap_map" THEN out_file ELSE backlog
                   /\ sscf_report' = IF name = "sscf_benchmark_benchmark"
                                     THEN out_file ELSE sscf_report]_vars
    /\ [](pc = "gating" => gap_analysis = last_assess)

\* at the gate after two successful assessments, the second to the override
\* path: the tracked gap analysis is the later one
C27_Witness ==
    /\ pc = "gating"
    /\ gap_analysis = AltPath
    /\ last_assess = AltPath
    /\ files[GapDefault].kind = "json"
    /\ files[GapDefault].has_findings
    /\ backlog = NoPath
    /\ sscf_report = NoPath

(***************************************************************************)
(* The gate over whatever the filesystem holds when the loop ends: the     *)
(* tracked paths are relative to the working directory and the files are   *)
(* written by subprocesses, so a tracked file may be missing or may hold   *)
(* anything (loop.py 37-66, 240-260).                                      *)
(***************************************************************************)
\* a file that json.loads rejects
Text == [kind |-> "text"]

\* what a path can hold at the gate
GateFileContents ==
    { Absent, Text, OtherJson, ReportFile(3400),
      GapFile(<<F("SBS-AUTH-001", "fail", "critical")>>),
      GapFile(<<F(NoKey, "fail", "critical"), F("SBS-ACS-001", "fail", "high")>>),
      GapFile(<<F("SBS-AUTH-001", "fail", "critical"), F(NoKey, "fail", "critical")>>) }

\* the loop has ended on end_turn after a turn of tool calls
GateInit ==
    /\ pc = "gating"
    /\ org \in Orgs
    /\ dry_run \in BOOLEAN
    /\ approve_critical \in BOOLEAN
    /\ mem_client = TRUE
    /\ turns = 2
    /\ gap_analysis \in {NoPath, GapDefault, AltPath}
    /\ backlog = NoPath
    /\ sscf_report \in {NoPath, ReportDefault}
    /\ summary = SummaryFor("end_turn")
    /\ content = <<TextBlock>>
    /\ idx = 1
    /\ tool_results = <<>>
    /\ next_input = <<>>
    /\ files \in [Paths -> GateFileContents]
    /\ critical_fails = <<>>
    /\ score = 0
    /\ add_calls = <<>>
    /\ memory = <<>>
    /\ loop_result = NoRecord
    /\ exit_code = NoExit
    /\ dispatched = <<>>
    /\ nblocks = 1
    /\ last_assess = gap_analysis
    /\ AssessIdle
    /\ MapIdle
    /\ ScoreIdle
    /\ BenchIdle
    /\ clock = <<>>

GateNext == Gate \/ Persist \/ WriteResult

SpecGate == GateInit /\ [][GateNext]_vars

(***************************************************************************)
(* Properties of the gate on a missing artifact.                           *)
(***************************************************************************)
\* no gap analysis is tracked, or the tracked file does not exist, cannot be
\* parsed, or holds a critical/fail entry without a control_id
ArtifactMissing ==
    \/ gap_analysis = NoPath
    \/ files[gap_analysis].kind = "absent"
    \/ files[gap_analysis].kind = "text"
    \/ /\ files[gap_analysis].kind = "json"
       /\ files[gap_analysis].has_findings
       /\ \E i \in 1..Len(files[gap_analysis].findings) :
             /\ files[gap_analysis].findings[i].status = "fail"
             /\ files[gap_analysis].findings[i].severity = "critical"
             /\ files[gap_analysis].findings[i].control_id = NoKey

\* C28: when no gap analysis is tracked, or the tracked file does not exist,
\* cannot be parsed or holds a critical/fail entry without a control_id, the
\* extracted critical-fail list is empty and the run is not blocked, whatever
\* dry_run and approve_critical are; and when no score report is tracked the
\* reported overall score is 0.0, in the state and in the result record.
C28_GateFailsOpen ==
    /\ ArtifactMissing =>
          /\ critical_fails = <<>>
          /\ pc # "blocked"
          /\ exit_code # 2
          /\ loop_result.written => loop_result.critical_fails = <<>>
    /\ sscf_report = NoPath =>
          /\ score = 0
          /\ loop_result.written => loop_result.overall_score = 0

\* a finished run, neither dry-run nor approved, whose tracked gap analysis
\* holds a critical/fail finding next to a critical/fail entry without
\* control_id, and which tracked no report although one lies on disk
C28_Witness ==
    /\ pc = "done"
    /\ ~dry_run
    /\ ~approve_critical
    /\ gap_analysis = AltPath
    /\ files[AltPath] = GapFile(<<F("SBS-AUTH-001", "fail", "critical"),
                                  F(NoKey, "fail", "critical")>>)
    /\ sscf_report = NoPath
    /\ files[ReportDefault] = ReportFile(3400)
    /\ loop_result.written
    /\ loop_result.critical_fails = <<>>
    /\ loop_result.overall_score = 0
    /\ exit_code = 0

====
